---------------------------- MODULE Spec2Model ----------------------------
(***************************************************************************)
(* A model of the kyrene-core runtime (crates/kyrene-core/src):            *)
(*   - loan.rs       LoanStorage, Loan, LoanMut            (variables l..)   *)
(*   - component.rs, resource.rs, world_handle.rs          (variables w..)   *)
(*   - handler.rs, event.rs  handler graph and dispatch    (variables e..)   *)
(*   - handler.rs            the spawned handler tasks     (variables h..)   *)
(*   - query.rs              Query over Components         (variables q..)   *)
(*   - handler.rs            the Events registry           (variables r..)   *)
(*   - kyrene-graphics window.rs  run_window               (variables a..)   *)
(*   - world_view.rs, world.rs  deferred operations        (variables v..)   *)
(*   - event.rs              concurrent calls of fire      (variables c..)   *)
(*   - component.rs          the two maps of Components    (variables i..)   *)
(*   - handler.rs            EventHandlerMeta::is_compatible (variables p..) *)
(* Each part has its own specification (SpecLoan, SpecWorld, SpecFire,     *)
(* SpecRegister, SpecQuery, SpecEvents); the variables of the other parts  *)
(* keep their initial values.  SpecRun runs the handlers of a registered   *)
(* graph against the store, SpecWindow fires the startup and tick events   *)
(* on a registered graph.                                                  *)
(* An Option<T> is modelled as a set with at most one element: {} is None  *)
(* and {v} is Some(v).                                                     *)
(***************************************************************************)
EXTENDS Integers, Sequences, FiniteSets, TLC

VARIABLES
  lStorage,   \* the LoanStorage<T> enum value: [tag, val, cell]
  lCells,     \* the Arc<Mutex<Option<T>>> cells: cell -> Option<T>
  lShared,    \* outstanding Loan<T> tokens (Arc strong count minus the slot's own)
  lTokens,    \* outstanding LoanMut<T> tokens: [inner, outer]
  lReturns,   \* tasks spawned by LoanMut::drop, not yet run: [inner, outer]
  lCaller,    \* what the holder of &mut LoanStorage is doing
  lLast,      \* the last call on the slot and what it returned
  lWritten,   \* history: the value left by the last writer (or by new())
  wMap,       \* Components::entity_map and Resources::map: slot key -> storage
  wIndex,     \* Components::component_map: the component keys in the reverse index
  wVal,       \* each storage's Option<DynComponent>
  wLock,      \* each storage's tokio RwLock
  wWorld,     \* WorldHandle::world, the RwLock around the World
  wPc,        \* each task's pending WorldHandle call
  wHandles,   \* the Ref / Mut handles each task holds
  wCalls,     \* how many WorldHandle calls have been made so far
  wWritten,   \* history: what was last written into each storage (new() or a Mut)
  wStarted,   \* the tasks 1..wStarted have made a WorldHandle call
  eNodes,     \* the handler graph's nodes: node index -> handler type
  eCache,     \* DynEventHandlers::index_cache: handler type -> node index, 0 if none
  eEdges,     \* the handler graph's edges <<from, to>> in the order they were added
  eReg,       \* the insert in progress: its node and its options still to process
  eRegPanic,  \* an insert has panicked on an unregistered handler type
  eFirePc,    \* where the fire in progress is
  eAwaitAll,  \* the fire's await_all_handlers argument
  eFireNo,    \* how many times the event has been fired
  eInDegrees, \* fire's in_degrees map
  eQueue,     \* fire's queue
  eBatch,     \* the nodes of the current batch still to be spawned
  eBatchNo,   \* the number of the current batch
  eJoinHandles, \* fire's join_handles
  eLog,       \* history: the nodes in the order this fire spawned their handlers
  eRet,       \* what the last fire returned, if it has returned
  eTasks,     \* the spawned handler tasks: <<fire, node>> -> [st, batch, delta_time]
  eLastFired, \* DynEventDispatcher::last_fired: Option of an instant (a batch number)
  eDelta,     \* the delta_time of the DynEvent made for the batch in progress, if any
  hPc,        \* where the handler task of each node is in run_dyn and the function
  hInit,      \* the handlers' parameter state has been initialised
  hState,     \* FunctionEventHandler::state of each node: Option of the parameter state
  hCells,     \* the Arc<RwLock<usize>> cells behind the Local<usize> states
  hItem,      \* the Local<usize> fetched for each node's running invocation, if any
  hInvoked,   \* history: how often each node's handler function has been invoked
  qKnown,     \* the keys of Components::entity_map: the entities ever given a component
  qEntityMap, \* the (entity, type) entries of Components::entity_map
  qComponentMap, \* the (entity, type) entries of Components::component_map
  qLock,      \* the RwLock of each (entity, type) storage
  qMods,      \* how many inserts and removes have been made
  qQueries,   \* the constructed Query values: [kinds, entities_matching]
  qSnap,      \* history: the store as it was when each query was constructed
  qIter,      \* the iteration in progress: the streams of Query::iter and their consumer
  qGot,       \* history: the result of the Query::get call the task has just made
  rEntries,   \* Events::entries: event type -> Option of its dispatcher
  rDispatchers, \* the DynEventDispatcher allocations: [type_id, handlers, last_fired]
  rHandles,   \* the EventDispatcher<T> handles returned to the callers: [ty, event]
  rRegistered, \* history: per event type, the handlers registered and through what
  rFiredAt,   \* history: per event type, the instant of its last firing with a batch
  rLast,      \* history: the last call on the registry or on a handle
  rClock,     \* the instants taken so far (Instant::now)
  aPc,        \* where run_window's async block and its tick task are
  aTick,      \* the tick task's `tick` counter
  aCalls,     \* how many fire_event calls run_window has made
  aAwait,     \* the await_all_handlers argument of the last fire_event call
  aLog,       \* history: the payloads of the fire_event calls, in order
  vQueue,     \* the unbounded channel of Deferred operations (WorldView::tx / op_rx)
  vRunning,   \* the Deferred operations taken from the channel and not yet finished
  vPc,        \* where each caller of WorldView::defer is
  vRx,        \* each caller's channel(1) for the result of its operation
  vGot,       \* what the defer call of each caller has returned, if it has
  vSent,      \* history: the operations in the order they were sent
  vApplied,   \* history: the operations in the order they were applied, with results
  vNextId,    \* the process-wide NEXT_ID counter of the entity identifiers
  vIssued,    \* history: the identifiers in the order they were issued
  vComp,      \* the entities that hold a component in the deferred world
  cFire,      \* the concurrent calls of fire on one dispatcher, each with its locals
  cLastFired, \* that dispatcher's last_fired mutex: [holder, val]
  iKnown,     \* the keys of a Components' entity_map
  iEntityMap, \* the (entity, type) entries of its entity_map
  iComponentMap, \* the (entity, type) entries of its component_map
  iOps,       \* how many calls have been made on it
  iDone,      \* history: the kinds of calls made on it
  pSelf,      \* the EventHandlerMeta is_compatible is called on
  pOther,     \* its argument
  pOut        \* what self.is_compatible(&other) and other.is_compatible(&self) returned

lvars == <<lStorage, lCells, lShared, lTokens, lReturns, lCaller, lLast, lWritten>>

wvars == <<wMap, wIndex, wVal, wLock, wWorld, wPc, wHandles, wCalls, wWritten, wStarted>>

\* The part of the dispatcher's state that times the firings.
dvars == <<eLastFired, eDelta>>

evars == <<eNodes, eCache, eEdges, eReg, eRegPanic, eFirePc, eAwaitAll, eFireNo,
           eInDegrees, eQueue, eBatch, eBatchNo, eJoinHandles, eLog, eRet, eTasks,
           dvars>>

\* The parameter states of the handlers.
svars == <<hState, hCells, hItem>>

hvars == <<hPc, hInit, hInvoked, svars>>

qvars == <<qKnown, qEntityMap, qComponentMap, qLock, qMods, qQueries, qSnap, qIter,
           qGot>>

rvars == <<rEntries, rDispatchers, rHandles, rRegistered, rFiredAt, rLast, rClock>>

avars == <<aPc, aTick, aCalls, aAwait, aLog>>

vvars == <<vQueue, vRunning, vPc, vRx, vGot, vSent, vApplied, vNextId, vIssued, vComp>>

\* The parts added to the model last.
cvars == <<cFire, cLastFired>>

ivars == <<iKnown, iEntityMap, iComponentMap, iOps, iDone>>

pvars == <<pSelf, pOther, pOut>>

xvars == <<vvars, cvars, ivars, pvars>>

\* The variables of the parts that are specified on their own.
ovars == <<qvars, rvars, avars, xvars>>

vars == <<lvars, wvars, evars, hvars, ovars>>

\* A step of one part of the model leaves the other parts alone.
LoanFrame == UNCHANGED <<wvars, evars, hvars, ovars>>
WorldFrame == UNCHANGED <<lvars, evars, hvars, ovars>>
EventFrame == UNCHANGED <<lvars, wvars, hvars, ovars>>
QueryFrame == UNCHANGED <<lvars, wvars, evars, hvars, rvars, avars, xvars>>
RegistryFrame == UNCHANGED <<lvars, wvars, evars, hvars, qvars, avars, xvars>>
WindowFrame == UNCHANGED <<lvars, wvars, evars, hvars, qvars, rvars, xvars>>
ViewFrame == UNCHANGED <<lvars, wvars, evars, hvars, qvars, rvars, avars, cvars, ivars, pvars>>
ConcFrame == UNCHANGED <<lvars, wvars, evars, hvars, qvars, rvars, avars, vvars, ivars, pvars>>
IndexFrame == UNCHANGED <<lvars, wvars, evars, hvars, qvars, rvars, avars, vvars, cvars, pvars>>
MetaFrame == UNCHANGED <<lvars, wvars, evars, hvars, qvars, rvars, avars, vvars, cvars, ivars>>

-----------------------------------------------------------------------------
(* Bounds of the loan model *)

MaxVal == 1
MaxCells == 2
MaxShared == 2

Values == 0..MaxVal
Cells == 1..MaxCells

-----------------------------------------------------------------------------
(* loan.rs *)

Vacant == [tag |-> "Vacant", val |-> {}, cell |-> 0]
Owned(v) == [tag |-> "Owned", val |-> {v}, cell |-> 0]
LoanOf(v) == [tag |-> "Loan", val |-> {v}, cell |-> 0]
LoanMutOf(c) == [tag |-> "LoanMut", val |-> {}, cell |-> c]

\* Mutant: the Arc is unwrapped whatever its strong count.
TryUnwrapAlways(shared) == TRUE

\* Arc::try_unwrap on the slot's Arc<T>: succeeds iff the slot holds the only
\* strong reference, that is, no Loan token is alive.
TryUnwrapOk(shared) == shared = 0

\* LoanStorage::into_owned: [ok, val, err, cells]; err is the storage handed
\* back in Err, cells the cells after the call (guard.take() empties the cell).
IntoOwned(s, cells, shared) ==
  CASE s.tag = "Vacant" ->
         [ok |-> FALSE, val |-> {}, err |-> s, cells |-> cells]
    [] s.tag = "Owned" ->
         [ok |-> TRUE, val |-> s.val, err |-> s, cells |-> cells]
    [] s.tag = "Loan" ->
         [ok |-> TryUnwrapOk(shared), val |-> s.val, err |-> s, cells |-> cells]
    [] s.tag = "LoanMut" ->
         [ok |-> cells[s.cell] # {}, val |-> cells[s.cell], err |-> s,
          cells |-> [cells EXCEPT ![s.cell] = {}]]

\* Mutant: a slot already on shared loan refuses a second reader.
IntoLoanedSingleReader(s, cells) ==
  CASE s.tag = "Vacant" ->
         [ok |-> FALSE, val |-> {}, err |-> s, cells |-> cells]
    [] s.tag = "Owned" ->
         [ok |-> TRUE, val |-> s.val, err |-> s, cells |-> cells]
    [] s.tag = "Loan" ->
         [ok |-> FALSE, val |-> {}, err |-> s, cells |-> cells]
    [] s.tag = "LoanMut" ->
         [ok |-> cells[s.cell] # {}, val |-> cells[s.cell], err |-> s,
          cells |-> [cells EXCEPT ![s.cell] = {}]]

\* LoanStorage::into_loaned: as into_owned, but a slot that is already on
\* shared loan hands out its Arc again.
IntoLoaned(s, cells) ==
  CASE s.tag = "Vacant" ->
         [ok |-> FALSE, val |-> {}, err |-> s, cells |-> cells]
    [] s.tag = "Owned" ->
         [ok |-> TRUE, val |-> s.val, err |-> s, cells |-> cells]
    [] s.tag = "Loan" ->
         [ok |-> TRUE, val |-> s.val, err |-> s, cells |-> cells]
    [] s.tag = "LoanMut" ->
         [ok |-> cells[s.cell] # {}, val |-> cells[s.cell], err |-> s,
          cells |-> [cells EXCEPT ![s.cell] = {}]]

\* LoanStorage::as_owned_ref / as_owned_mut: Some only for the Owned variant.
AsOwned(s) == IF s.tag = "Owned" THEN s.val ELSE {}

\* The cells some LoanMut token or pending return task still points to.
HeldCells == {t.outer : t \in lTokens} \cup {t.outer : t \in lReturns}

\* Arc::new(Mutex::new(None)): a cell nothing refers to.
FreshCell == CHOOSE c \in Cells \ HeldCells : \A d \in Cells \ HeldCells : c <= d

\* LoanStorage::loan, one call (the slot is behind &mut, so a call is atomic
\* with respect to other calls).
LoanAttempt ==
  LET r == IntoLoaned(lStorage, lCells) IN
    /\ lShared < MaxShared
    /\ lCells' = r.cells
    /\ IF r.ok
         THEN /\ lStorage' = [tag |-> "Loan", val |-> r.val, cell |-> 0]
              /\ lShared' = lShared + 1
         ELSE /\ lStorage' = r.err
              /\ lShared' = lShared
    /\ lLast' = [op |-> "loan", ok |-> r.ok, val |-> IF r.ok THEN r.val ELSE {}]
    /\ UNCHANGED <<lTokens, lReturns, lWritten>>

\* LoanStorage::loan_mut, one call.
LoanMutAttempt ==
  LET r == IntoOwned(lStorage, lCells, lShared) IN
    /\ r.ok => Cells \ HeldCells # {}
    /\ IF r.ok
         THEN /\ lStorage' = LoanMutOf(FreshCell)
              /\ lCells' = [r.cells EXCEPT ![FreshCell] = {}]
              /\ lTokens' = lTokens \cup {[inner |-> r.val, outer |-> FreshCell]}
         ELSE /\ lStorage' = r.err
              /\ lCells' = r.cells
              /\ lTokens' = lTokens
    /\ lLast' = [op |-> "loan_mut", ok |-> r.ok, val |-> IF r.ok THEN r.val ELSE {}]
    /\ UNCHANGED <<lShared, lReturns, lWritten>>

LoanCall == lCaller = "idle" /\ LoanAttempt /\ UNCHANGED lCaller /\ LoanFrame

LoanMutCall == lCaller = "idle" /\ LoanMutAttempt /\ UNCHANGED lCaller /\ LoanFrame

\* as_owned_ref / as_owned_mut called on the slot.
AsOwnedCall ==
  /\ LoanFrame
  /\ lCaller = "idle"
  /\ lLast' = [op |-> "as_owned", ok |-> AsOwned(lStorage) # {}, val |-> AsOwned(lStorage)]
  /\ UNCHANGED <<lStorage, lCells, lShared, lTokens, lReturns, lCaller, lWritten>>

\* await_loan / await_loan_mut: the caller keeps &mut self over the whole loop,
\* so no other call on the slot runs until the loop returns.
BeginAwaitLoan ==
  /\ LoanFrame
  /\ lCaller = "idle"
  /\ lShared < MaxShared
  /\ lCaller' = "await_loan"
  /\ UNCHANGED <<lStorage, lCells, lShared, lTokens, lReturns, lLast, lWritten>>

BeginAwaitLoanMut ==
  /\ LoanFrame
  /\ lCaller = "idle"
  /\ lCaller' = "await_loan_mut"
  /\ UNCHANGED <<lStorage, lCells, lShared, lTokens, lReturns, lLast, lWritten>>

\* One turn of the loop: try, return on Some, else yield_now and retry.
AwaitLoanStep ==
  /\ LoanFrame
  /\ lCaller = "await_loan"
  /\ LoanAttempt
  /\ lCaller' = IF lLast'.ok THEN "idle" ELSE "await_loan"

AwaitLoanMutStep ==
  /\ LoanFrame
  /\ lCaller = "await_loan_mut"
  /\ LoanMutAttempt
  /\ lCaller' = IF lLast'.ok THEN "idle" ELSE "await_loan_mut"

\* A Loan<T> token is dropped: the Arc's strong count goes down by one.
DropLoan ==
  /\ LoanFrame
  /\ lShared > 0
  /\ lShared' = lShared - 1
  /\ UNCHANGED <<lStorage, lCells, lTokens, lReturns, lCaller, lLast, lWritten>>

\* DerefMut on a LoanMut<T>: the holder writes the value.
MutateLoanMut ==
  \E t \in lTokens, v \in Values :
    /\ LoanFrame
    /\ t.inner # {v}
    /\ lTokens' = (lTokens \ {t}) \cup {[t EXCEPT !.inner = {v}]}
    /\ UNCHANGED <<lStorage, lCells, lShared, lReturns, lCaller, lLast, lWritten>>

\* Mutant: the token is dropped without the task that puts the value back.
DropLoanMutNoReturn ==
  \E t \in lTokens :
    /\ LoanFrame
    /\ lTokens' = lTokens \ {t}
    /\ lWritten' = t.inner
    /\ UNCHANGED <<lStorage, lCells, lShared, lReturns, lCaller, lLast>>

\* Drop for LoanMut: take the value and spawn the task that puts it back.
DropLoanMut ==
  \E t \in lTokens :
    /\ LoanFrame
    /\ lTokens' = lTokens \ {t}
    /\ lReturns' = lReturns \cup {t}
    /\ lWritten' = t.inner
    /\ UNCHANGED <<lStorage, lCells, lShared, lCaller, lLast>>

\* The spawned task runs: *outer.lock().await = inner.
ReturnTask ==
  \E t \in lReturns :
    /\ LoanFrame
    /\ lCells' = [lCells EXCEPT ![t.outer] = t.inner]
    /\ lReturns' = lReturns \ {t}
    /\ UNCHANGED <<lStorage, lShared, lTokens, lCaller, lLast, lWritten>>

\* LoanStorage::default() is Vacant, LoanStorage::new(v) is Owned(v).
InitLoan ==
  /\ lStorage \in {Vacant} \cup {Owned(v) : v \in Values}
  /\ lCells = [c \in Cells |-> {}]
  /\ lShared = 0
  /\ lTokens = {}
  /\ lReturns = {}
  /\ lCaller = "idle"
  /\ lLast = [op |-> "new", ok |-> TRUE, val |-> lStorage.val]
  /\ lWritten = lStorage.val

NextLoan ==
  \/ LoanCall
  \/ LoanMutCall
  \/ AsOwnedCall
  \/ BeginAwaitLoan
  \/ BeginAwaitLoanMut
  \/ AwaitLoanStep
  \/ AwaitLoanMutStep
  \/ DropLoan
  \/ MutateLoanMut
  \/ DropLoanMut
  \/ ReturnTask

-----------------------------------------------------------------------------
(* Bounds of the store model *)

MaxGen == 2
MaxCalls == 3

\* Three concurrent tasks, one entity with one component type, one resource
\* type, two component values.
Tasks == {1, 2, 3}
Entities == {1}
CompTypes == {"T"}
ResTypes == {"R"}
StoreValues == {0, 1}

\* A slot key: (entity, component type) in Components, resource type in Resources.
CompKeys == [kind : {"comp"}, ent : Entities, ty : CompTypes]
ResKeys == [kind : {"res"}, ent : {0}, ty : ResTypes]
Keys == CompKeys \cup ResKeys

\* A storage, Arc<RwLock<Option<DynComponent>>>: the key it was made for and
\* which of the key's storages it is. wMap[k] = 0 says the key has no entry.
Gens == 1..MaxGen
Stores == Keys \X Gens
NoKey == CHOOSE k \in Keys : TRUE

-----------------------------------------------------------------------------
(* lock.rs: tokio::sync::RwLock, a fair (FIFO, write-preferring) lock *)

FreeLock == [readers |-> {}, writer |-> 0, queue |-> <<>>]

CanGrant(l, mode) ==
  IF mode = "r" THEN l.writer = 0 ELSE l.writer = 0 /\ l.readers = {}

Grant(l, t, mode) ==
  IF mode = "r" THEN [l EXCEPT !.readers = @ \cup {t}] ELSE [l EXCEPT !.writer = t]

\* read().await / write().await: taken at once if nobody waits and the lock
\* allows it, else the task queues up behind the earlier waiters.
Acquire(l, t, mode) ==
  IF l.queue = <<>> /\ CanGrant(l, mode)
    THEN Grant(l, t, mode)
    ELSE [l EXCEPT !.queue = Append(@, [task |-> t, mode |-> mode])]

\* Released permits go to the waiters in queue order.
RECURSIVE Drain(_)
Drain(l) ==
  IF l.queue # <<>> /\ CanGrant(l, Head(l.queue).mode)
    THEN Drain(Grant([l EXCEPT !.queue = Tail(@)], Head(l.queue).task, Head(l.queue).mode))
    ELSE l

\* A guard is dropped.
Release(l, t, mode) ==
  Drain(IF mode = "r" THEN [l EXCEPT !.readers = @ \ {t}] ELSE [l EXCEPT !.writer = 0])

Waiting(l, t) == \E i \in 1..Len(l.queue) : l.queue[i].task = t

\* The task's pending request has been granted.
Granted(l, t, mode) ==
  /\ ~Waiting(l, t)
  /\ IF mode = "r" THEN t \in l.readers ELSE l.writer = t

-----------------------------------------------------------------------------
(* component.rs, resource.rs, world_handle.rs *)

Idle == [op |-> "idle", stage |-> "idle", key |-> NoKey, gen |-> 0, val |-> {}]

\* Mutant: get_mut takes the storage's lock with read_owned, as get does.
LockModeAlwaysRead(op) == "r"

\* get takes the storage's read lock (read_owned), get_mut its write lock
\* (write_owned).
LockModeOf(op) == IF op = "get" THEN "r" ELSE "w"

HandleKindOf(op) == IF op = "get" THEN "Ref" ELSE "Mut"

\* WorldHandle::get / get_mut lock the world for reading, insert / remove for
\* writing; the guard lives until the call returns.
WorldModeOf(op) == IF op \in {"get", "get_mut"} THEN "r" ELSE "w"

\* A storage nobody refers to any more (the last Arc is gone).
Unreferenced(k, g) ==
  /\ wMap[k] # g
  /\ wLock[<<k, g>>] = FreeLock

FreshGen(k) == CHOOSE g \in Gens : Unreferenced(k, g) /\ \A h \in Gens : Unreferenced(k, h) => g <= h

\* Mutant: a lookup finds the first storage the key ever had.
EntityMapGetFirst(k) == IF wMap[k] = 0 THEN 0 ELSE 1

\* entity_map.get(&entity)?.get(&type_id)? / map.get(&type_id)?: the storage
\* the key has now, 0 for None.
EntityMapGet(k) == wMap[k]

\* Mutant: remove leaves the entity in component_map.
ComponentMapKeep(k) == wIndex

\* component_map.get_mut(&type_id).unwrap().remove(&entity).
ComponentMapRemove(k) == wIndex \ {k}

\* Mutant: the old storage's value is taken without waiting for its lock.
OldLoanTakenAtOnce(t, st) == TRUE

\* old.loan.write().await has completed: no Ref or Mut on the old storage is
\* left.
OldLoanWritable(t, st) == Granted(wLock[st], t, "w")

\* insert / remove has returned Some(res): the task has no call pending and
\* holds the value until its next call.  A call that returns None, and a get /
\* get_mut whose handle is recorded in wHandles, leaves the task Idle.
Returned(res) == [Idle EXCEPT !.val = res]

\* Components::has / Resources::contains.
Has(k) == wMap[k] # 0

\* Components::entities_with::<T>().
EntitiesWith(ty) == {k.ent : k \in {j \in wIndex : j.ty = ty}}

\* A task calls WorldHandle::get / get_mut / insert / remove: self.world.read()
\* or self.world.write() is requested.
Begin(t) ==
  \E op \in {"get", "get_mut", "insert", "remove"}, k \in Keys, v \in StoreValues :
    /\ wPc[t].op = "idle"
    /\ wCalls < MaxCalls
    /\ wCalls' = wCalls + 1
    \* the tasks are alike: they make their first calls in the order of their numbers
    /\ t <= wStarted + 1
    /\ wStarted' = IF t > wStarted THEN t ELSE wStarted
    /\ UNCHANGED wWritten
    /\ op # "insert" => v = 0
    \* a task holds at most one Ref of a slot
    /\ op = "get" => ~\E h \in wHandles[t] : h.store[1] = k /\ h.kind = "Ref"
    /\ wWorld' = Acquire(wWorld, t, WorldModeOf(op))
    /\ wPc' = [wPc EXCEPT ![t] = [op |-> op, stage |-> "world", key |-> k, gen |-> 0,
                                  val |-> IF op = "insert" THEN {v} ELSE {}]]
    /\ UNCHANGED <<wMap, wIndex, wVal, wLock, wHandles>>
    /\ WorldFrame

\* Components::get / get_mut, Resources::get / get_mut, under the world's read
\* lock: look the storage up; None if there is none, else request its lock.
Lookup(t) ==
  LET pc == wPc[t] IN
    /\ pc.op \in {"get", "get_mut"} /\ pc.stage = "world"
    /\ Granted(wWorld, t, "r")
    /\ IF EntityMapGet(pc.key) = 0
         THEN /\ wWorld' = Release(wWorld, t, "r")
              /\ wPc' = [wPc EXCEPT ![t] = Idle]
              /\ wLock' = wLock
         ELSE /\ wLock' = [wLock EXCEPT ![<<pc.key, EntityMapGet(pc.key)>>] =
                                         Acquire(@, t, LockModeOf(pc.op))]
              /\ wPc' = [wPc EXCEPT ![t] = [pc EXCEPT !.stage = "slot", !.gen = EntityMapGet(pc.key)]]
              /\ wWorld' = wWorld
    /\ UNCHANGED <<wMap, wIndex, wVal, wHandles>>
    /\ UNCHANGED <<wCalls, wWritten, wStarted>>
    /\ WorldFrame

\* read_owned().await / write_owned().await completes: the call returns
\* Some(Ref) / Some(Mut) and the world's read guard is dropped.
Obtain(t) ==
  LET pc == wPc[t]
      st == <<pc.key, pc.gen>> IN
    /\ pc.op \in {"get", "get_mut"} /\ pc.stage = "slot"
    /\ Granted(wLock[st], t, LockModeOf(pc.op))
    /\ wHandles' = [wHandles EXCEPT ![t] = @ \cup
                      {[store |-> st, kind |-> HandleKindOf(pc.op), mode |-> LockModeOf(pc.op)]}]
    /\ wWorld' = Release(wWorld, t, "r")
    /\ wPc' = [wPc EXCEPT ![t] = Idle]
    /\ UNCHANGED <<wMap, wIndex, wVal, wLock>>
    /\ UNCHANGED <<wCalls, wWritten, wStarted>>
    /\ WorldFrame

\* Components::insert / Resources::insert under the world's write lock: the
\* reverse index and the map are updated at once; with no old storage the call
\* returns None, else it goes on to old.loan.write().await.
InsertApply(t) ==
  LET pc == wPc[t]
      k == pc.key
      old == wMap[k] IN
    /\ pc.op = "insert" /\ pc.stage = "world"
    /\ Granted(wWorld, t, "w")
    /\ \E g \in Gens : Unreferenced(k, g)
    /\ wIndex' = IF k \in CompKeys THEN wIndex \cup {k} ELSE wIndex
    /\ wMap' = [wMap EXCEPT ![k] = FreshGen(k)]
    /\ wVal' = [wVal EXCEPT ![<<k, FreshGen(k)>>] = pc.val]
    /\ wWritten' = [wWritten EXCEPT ![<<k, FreshGen(k)>>] = pc.val]
    /\ IF old = 0
         THEN /\ wWorld' = Release(wWorld, t, "w")
              /\ wPc' = [wPc EXCEPT ![t] = Idle]
              /\ wLock' = wLock
         ELSE /\ wLock' = [wLock EXCEPT ![<<k, old>>] = Acquire(@, t, "w")]
              /\ wPc' = [wPc EXCEPT ![t] = [pc EXCEPT !.stage = "old", !.gen = old]]
              /\ wWorld' = wWorld
    /\ UNCHANGED wHandles
    /\ UNCHANGED <<wCalls, wStarted>>
    /\ WorldFrame

\* Components::remove / Resources::remove under the world's write lock.
RemoveApply(t) ==
  LET pc == wPc[t]
      k == pc.key
      old == wMap[k] IN
    /\ pc.op = "remove" /\ pc.stage = "world"
    /\ Granted(wWorld, t, "w")
    /\ IF old = 0
         THEN /\ wWorld' = Release(wWorld, t, "w")
              /\ wPc' = [wPc EXCEPT ![t] = Idle]
              /\ UNCHANGED <<wMap, wIndex, wLock>>
         ELSE /\ wMap' = [wMap EXCEPT ![k] = 0]
              /\ wIndex' = ComponentMapRemove(k)
              /\ wLock' = [wLock EXCEPT ![<<k, old>>] = Acquire(@, t, "w")]
              /\ wPc' = [wPc EXCEPT ![t] = [pc EXCEPT !.stage = "old", !.gen = old]]
              /\ wWorld' = wWorld
    /\ UNCHANGED <<wVal, wHandles>>
    /\ UNCHANGED <<wCalls, wWritten, wStarted>>
    /\ WorldFrame

\* old.loan.write().await.take().unwrap(): once every handle on the old
\* storage is gone its value is taken and returned; the storage's guard and the
\* world's write guard are dropped.
TakeOld(t) ==
  LET pc == wPc[t]
      st == <<pc.key, pc.gen>> IN
    /\ pc.op \in {"insert", "remove"} /\ pc.stage = "old"
    /\ OldLoanWritable(t, st)
    /\ wVal' = [wVal EXCEPT ![st] = {}]
    /\ wWritten' = [wWritten EXCEPT ![st] = {}]
    /\ wLock' = [wLock EXCEPT ![st] = Release(@, t, "w")]
    /\ wWorld' = Release(wWorld, t, "w")
    /\ wPc' = [wPc EXCEPT ![t] = Returned(wVal[st])]
    /\ UNCHANGED <<wMap, wIndex, wHandles>>
    /\ UNCHANGED <<wCalls, wStarted>>
    /\ WorldFrame

\* DerefMut for Mut: the holder writes the component.
WriteMut(t) ==
  \E h \in wHandles[t], v \in StoreValues :
    /\ wPc[t].op = "idle"
    /\ h.kind = "Mut"
    /\ wVal[h.store] # {} /\ wVal[h.store] # {v}
    /\ wVal' = [wVal EXCEPT ![h.store] = {v}]
    /\ wWritten' = [wWritten EXCEPT ![h.store] = {v}]
    /\ UNCHANGED <<wMap, wIndex, wLock, wWorld, wPc, wHandles>>
    /\ UNCHANGED <<wCalls, wStarted>>
    /\ WorldFrame

\* A Ref or Mut is dropped: its owned guard is released.
DropHandle(t) ==
  \E h \in wHandles[t] :
    /\ wPc[t].op = "idle"
    /\ wHandles' = [wHandles EXCEPT ![t] = @ \ {h}]
    /\ wLock' = [wLock EXCEPT ![h.store] = Release(@, t, h.mode)]
    /\ UNCHANGED <<wMap, wIndex, wVal, wWorld, wPc>>
    /\ UNCHANGED <<wCalls, wWritten, wStarted>>
    /\ WorldFrame

\* The world after set-up: each slot is absent, or present holding 0 with no
\* handle out.
InitWorld ==
  /\ wMap \in [Keys -> {0, 1}]
  /\ wIndex = {k \in CompKeys : wMap[k] # 0}
  /\ wVal = [s \in Stores |-> IF wMap[s[1]] = s[2] THEN {0} ELSE {}]
  /\ wCalls = 0
  /\ wWritten = wVal
  /\ wStarted = 0
  /\ wLock = [s \in Stores |-> FreeLock]
  /\ wWorld = FreeLock
  /\ wPc = [t \in Tasks |-> Idle]
  /\ wHandles = [t \in Tasks |-> {}]

NextWorld ==
  \E t \in Tasks :
    \/ Begin(t)
    \/ Lookup(t)
    \/ Obtain(t)
    \/ InsertApply(t)
    \/ RemoveApply(t)
    \/ TakeOld(t)
    \/ WriteMut(t)
    \/ DropHandle(t)

-----------------------------------------------------------------------------
(* Bounds of the event model *)

MaxOptions == 3
MaxFires == 1

\* The handler functions (TypeInfo::of::<F>()), each registered at most once,
\* in this order.
HandlerOrder == <<"A", "B", "C">>
HandlerTypes == {HandlerOrder[i] : i \in 1..Len(HandlerOrder)}
Nodes == 1..Len(HandlerOrder)
After(ty) == [kind |-> "After", ty |-> ty]
Before(ty) == [kind |-> "Before", ty |-> ty]
HandlerAddOption == {After(ty) : ty \in HandlerTypes} \cup {Before(ty) : ty \in HandlerTypes}

-----------------------------------------------------------------------------
(* handler.rs: handler parameters and EventHandlerMeta *)

\* The parameter types a handler function may declare.
Res(r) == [kind |-> "Res", res |-> r]
ResMut(r) == [kind |-> "ResMut", res |-> r]
WorldHandleParam == [kind |-> "WorldHandle", res |-> "-"]
LocalParam(ty) == [kind |-> "Local", res |-> ty]

\* The handler functions of the application and their parameter lists: A and
\* B each take ResMut<R>, C takes (Res<R>, ResMut<R>), H takes the WorldHandle.
\* A, B and C are the functions registered with ordering options.  L and M
\* each take a Local<usize>, like foo_event_handler.
HandlerKinds == HandlerTypes \cup {"H", "L", "M"}
ParamsOf ==
  [ty \in HandlerKinds |->
     CASE ty = "A" -> <<ResMut("R")>>
       [] ty = "B" -> <<ResMut("R")>>
       [] ty = "C" -> <<Res("R"), ResMut("R")>>
       [] ty \in {"L", "M"} -> <<LocalParam("usize")>>
       [] OTHER -> <<WorldHandleParam>>]

\* EventHandlerMeta::default(), res::<T>() and res_mut::<T>().
DefaultMeta == [resources_read |-> {}, resources_written |-> {}]

\* HandlerParam::meta() of Res<T>, ResMut<T> and of the parameters that touch
\* no resource.
ParamMeta(p) ==
  CASE p.kind = "Res" -> [DefaultMeta EXCEPT !.resources_read = {p.res}]
    [] p.kind = "ResMut" -> [DefaultMeta EXCEPT !.resources_written = {p.res}]
    [] OTHER -> DefaultMeta

\* Mutant: two writers of the same resource are not counted as a conflict.
IsCompatibleWriters(m, other) ==
  Cardinality(m.resources_read \cap other.resources_written)
    + Cardinality(m.resources_written \cap other.resources_read) = 0

\* EventHandlerMeta::is_compatible: no resource written by one and read or
\* written by the other.
IsCompatible(m, other) ==
  Cardinality(m.resources_read \cap other.resources_written)
    + Cardinality(m.resources_written \cap other.resources_read)
    + Cardinality(m.resources_written \cap other.resources_written) = 0

\* impl Add for EventHandlerMeta.
MetaAdd(m, rhs) ==
  [resources_read |-> m.resources_read \cup rhs.resources_read,
   resources_written |-> m.resources_written \cup rhs.resources_written]

\* HandlerParam::meta() of a parameter tuple: the metas are added up one by
\* one, with assert!(meta.is_compatible(&meta2)) before each addition.
RECURSIVE TupleMetaFrom(_, _)
TupleMetaFrom(acc, params) ==
  IF params = <<>> THEN acc
  ELSE IF ~acc.ok THEN acc
  ELSE LET meta2 == ParamMeta(Head(params))
       IN TupleMetaFrom([ok |-> IsCompatible(acc.meta, meta2),
                         meta |-> MetaAdd(acc.meta, meta2)],
                        Tail(params))

TupleMeta(params) == TupleMetaFrom([ok |-> TRUE, meta |-> DefaultMeta], params)

\* EventHandler::meta(): FunctionEventHandler does not override the trait's
\* default, which is EventHandlerMeta::default() whatever the parameters are.
EventHandlerMeta(ty) == DefaultMeta

\* HandlerConfig::new: meta: Arc::new(handler.meta()).  The tuple's meta(), and
\* with it the assertion, is not evaluated.
HandlerConfigNew(ty) == [panics |-> FALSE, meta |-> EventHandlerMeta(ty)]

-----------------------------------------------------------------------------
(* handler.rs: DynEventHandlers::insert *)

\* fire holds handlers.read() from its first line to its return or panic.
FireInProgress == eFirePc \in {"loop", "spawn", "await"}

\* The handler function registered next: the types are taken in the order of
\* HandlerOrder.
FirstUnregistered ==
  HandlerOrder[CHOOSE i \in 1..Len(HandlerOrder) :
                 /\ eCache[HandlerOrder[i]] = 0
                 /\ \A j \in 1..(i - 1) : eCache[HandlerOrder[j]] # 0]

\* The first half of insert: add_node under handlers.blocking_write(), then
\* index_cache.insert(handler_type_id, index).  The options are processed
\* afterwards, each under its own blocking_write().
InsertNode ==
  \E ty \in HandlerTypes, opts \in SUBSET HandlerAddOption :
    /\ Len(eEdges) + Cardinality(opts) <= MaxOptions
    /\ ~HandlerConfigNew(ty).panics
    /\ eReg.opts = {}
    /\ ~eRegPanic
    /\ ~FireInProgress
    /\ Len(eNodes) < Len(HandlerOrder)
    /\ \E u \in HandlerTypes : eCache[u] = 0
    /\ ty = FirstUnregistered
    /\ eNodes' = Append(eNodes, ty)
    /\ eCache' = [eCache EXCEPT ![ty] = Len(eNodes) + 1]
    /\ eReg' = [node |-> Len(eNodes) + 1, opts |-> opts]
    /\ UNCHANGED <<eEdges, eRegPanic, eFirePc, eAwaitAll, eFireNo, eInDegrees,
                   eQueue, eBatch, eBatchNo, eJoinHandles, eLog, eRet, eTasks, dvars>>
    /\ EventFrame

\* insert of a handler function that is registered already: add_node makes a
\* second node for it and index_cache.insert overwrites its entry, so the
\* options of later registrations refer to the new node.
ReinsertNode ==
  \E ty \in HandlerTypes, opts \in SUBSET HandlerAddOption :
    /\ Len(eEdges) + Cardinality(opts) <= MaxOptions
    /\ ~HandlerConfigNew(ty).panics
    /\ eReg.opts = {}
    /\ ~eRegPanic
    /\ ~FireInProgress
    /\ Len(eNodes) < Len(HandlerOrder)
    /\ eCache[ty] # 0
    /\ eNodes' = Append(eNodes, ty)
    /\ eCache' = [eCache EXCEPT ![ty] = Len(eNodes) + 1]
    /\ eReg' = [node |-> Len(eNodes) + 1, opts |-> opts]
    /\ UNCHANGED <<eEdges, eRegPanic, eFirePc, eAwaitAll, eFireNo, eInDegrees,
                   eQueue, eBatch, eBatchNo, eJoinHandles, eLog, eRet, eTasks, dvars>>
    /\ EventFrame

\* One iteration of `for opt in config.options` (an FxHashSet, so in any
\* order): After(first) adds the edge first -> index, Before(second) adds
\* index -> second; index_cache.get(..).unwrap() panics on a handler type that
\* was never registered.  The panic unwinds the registering thread (insert is
\* synchronous set-up code): the remaining options are abandoned and nothing
\* is registered or fired afterwards.
InsertOption ==
  \E opt \in eReg.opts :
    /\ ~FireInProgress
    /\ IF eCache[opt.ty] = 0
         THEN /\ eRegPanic' = TRUE
              /\ eReg' = [eReg EXCEPT !.opts = {}]
              /\ UNCHANGED eEdges
         ELSE /\ eEdges' = Append(eEdges,
                                  IF opt.kind = "After"
                                    THEN <<eCache[opt.ty], eReg.node>>
                                    ELSE <<eReg.node, eCache[opt.ty]>>)
              /\ eReg' = [eReg EXCEPT !.opts = @ \ {opt}]
              /\ UNCHANGED eRegPanic
    /\ UNCHANGED <<eNodes, eCache, eFirePc, eAwaitAll, eFireNo, eInDegrees,
                   eQueue, eBatch, eBatchNo, eJoinHandles, eLog, eRet, eTasks, dvars>>
    /\ EventFrame

-----------------------------------------------------------------------------
(* event.rs: DynEventDispatcher::fire *)

\* handlers.node_indices(): the nodes in index order.
NodeIndices == [i \in 1..Len(eNodes) |-> i]

\* neighbors_directed(node, Incoming).count(): one per incoming edge, parallel
\* edges and self-loops included.
InDegree(node) == Cardinality({i \in 1..Len(eEdges) : eEdges[i][2] = node})

\* neighbors_directed(node, Outgoing): the targets of the node's outgoing
\* edges, the most recently added edge first.
RECURSIVE NeighborsFrom(_, _)
NeighborsFrom(node, i) ==
  IF i = 0 THEN <<>>
  ELSE (IF eEdges[i][1] = node THEN <<eEdges[i][2]>> ELSE <<>>)
         \o NeighborsFrom(node, i - 1)

Outgoing(node) == NeighborsFrom(node, Len(eEdges))

\* Mutant: a neighbour is queued each time its in-degree is decremented.
EnqueueOnDecrement(deg) == TRUE

\* `if *in_degree == 0 { queue.push_back(neighbor) }`
EnqueueWhen(deg) == deg = 0

\* The inner loop over a node's outgoing neighbours: decrement, queue at zero.
RECURSIVE Relax(_, _)
Relax(st, nbrs) ==
  IF nbrs = <<>> THEN st
  ELSE LET n == Head(nbrs)
           d == st.deg[n] - 1
       IN Relax([st EXCEPT !.deg[n] = d,
                           !.queue = IF EnqueueWhen(d) THEN Append(@, n) ELSE @],
                Tail(nbrs))

\* `for _ in 0..queue.len()`: pop the k nodes that were queued when the batch
\* began into the batch, relaxing the neighbours of each.
RECURSIVE TakeBatch(_, _)
TakeBatch(st, k) ==
  IF k = 0 THEN st
  ELSE LET node == Head(st.queue)
       IN TakeBatch(Relax([st EXCEPT !.queue = Tail(@), !.batch = Append(@, node)],
                          Outgoing(node)),
                    k - 1)

\* Mutant: the join handles are awaited once, after the last batch.
AwaitAfterLastBatch(awaitAll, queue) == awaitAll /\ queue = <<>>

\* `if await_all_handlers { for handle in join_handles.drain(..) {..} }` at the
\* end of every iteration of the while loop.
AwaitsBatch(awaitAll, queue) == awaitAll

\* Mutant: handle.await returns although the task is still running.
JoinedAlways(st) == TRUE

\* handle.await returns once the spawned task has finished or panicked.
Joined(st) == st # "running"

\* An instant taken in an earlier firing, seen from the firing in progress.
BeforeFiring == 0

\* The start of fire up to the while loop: take handlers.read(), compute the
\* in-degrees and queue the nodes of in-degree zero.  The event is fired again
\* once the handler tasks of the previous fire have ended; eTasks then holds
\* the tasks of the new fire only.
BeginFire ==
  \E awaitAll \in BOOLEAN :
    /\ ~FireInProgress
    /\ ~eRegPanic
    /\ \A key \in DOMAIN eTasks : eTasks[key].st # "running"
    /\ eFireNo' = eFireNo + 1
    /\ eAwaitAll' = awaitAll
    /\ eInDegrees' = [n \in Nodes |-> IF n <= Len(eNodes) THEN InDegree(n) ELSE 0]
    /\ eQueue' = SelectSeq(NodeIndices, LAMBDA n : InDegree(n) = 0)
    /\ eBatch' = <<>>
    /\ eBatchNo' = 0
    /\ eJoinHandles' = <<>>
    /\ eLog' = <<>>
    /\ eRet' = {}
    /\ eFirePc' = "loop"
    /\ eTasks' = <<>>
    /\ eLastFired' = {BeforeFiring : t \in eLastFired}
    /\ UNCHANGED <<eNodes, eCache, eEdges, eReg, eRegPanic, eDelta>>
    /\ EventFrame

\* The event is fired, MaxFires times at most, once a handler is registered:
\* with no handler the while loop of fire is not entered and fire returns 0.
StartFire == eFireNo < MaxFires /\ eNodes # <<>> /\ BeginFire

\* Mutant: a batch takes one node from the queue.
BatchSizeOne(queue) == 1

\* `for _ in 0..queue.len()`: the range is evaluated once, before the loop.
BatchSize(queue) == Len(queue)

\* Instant::now() when the fire in progress makes the DynEvent of its next
\* batch.  Instants are kept relative to the firing in progress: the instant
\* of its batch b is b.
InstantNow == eBatchNo + 1

\* `last_fired.map(|t| t.elapsed())`: the time from t to now, if there is a t.
DeltaTime(last_fired, now) == {[since |-> t, until |-> now] : t \in last_fired}

\* One iteration of `while !queue.is_empty()` up to the spawn loop; the
\* delta_time block is inside the loop, so it runs for every batch.
ComputeBatch ==
  /\ eFirePc = "loop"
  /\ eQueue # <<>>
  /\ LET st == TakeBatch([deg |-> eInDegrees, queue |-> eQueue, batch |-> <<>>],
                         BatchSize(eQueue))
     IN /\ eInDegrees' = st.deg
        /\ eQueue' = st.queue
        /\ eBatch' = st.batch
  /\ eBatchNo' = eBatchNo + 1
  /\ eDelta' = DeltaTime(eLastFired, InstantNow)
  /\ eLastFired' = {InstantNow}
  /\ eFirePc' = "spawn"
  /\ UNCHANGED <<eNodes, eCache, eEdges, eReg, eRegPanic, eAwaitAll, eFireNo,
                 eJoinHandles, eLog, eRet, eTasks>>
  /\ EventFrame

\* `for node in batch { join_handles.push(tokio::spawn(..)) }`, one node at a
\* time; after the last one the loop awaits the handles or goes round again.
\* The DynEvent of the batch is a local of the loop body: it is dropped when
\* the iteration ends.
SpawnHandler ==
  /\ eFirePc = "spawn"
  /\ LET node == Head(eBatch)
         key == <<eFireNo, node>>
     IN /\ eTasks' = [k \in DOMAIN eTasks \cup {key} |->
                        IF k = key
                        THEN [st |-> "running", batch |-> eBatchNo,
                              delta_time |-> eDelta]
                        ELSE eTasks[k]]
        /\ eJoinHandles' = Append(eJoinHandles, key)
        /\ eLog' = Append(eLog, node)
  /\ eBatch' = Tail(eBatch)
  /\ eFirePc' = IF Tail(eBatch) # <<>> THEN "spawn"
                ELSE IF AwaitsBatch(eAwaitAll, eQueue) THEN "await"
                ELSE "loop"
  /\ eDelta' = IF eFirePc' = "loop" THEN {} ELSE eDelta
  /\ UNCHANGED <<eNodes, eCache, eEdges, eReg, eRegPanic, eAwaitAll, eFireNo,
                 eInDegrees, eQueue, eBatchNo, eRet, eLastFired>>
  /\ EventFrame

\* `handle.await.unwrap()` on the first join handle: it returns when the task
\* has finished, and panics (dropping the read guard and fire's locals) when
\* the task panicked.
AwaitHandle ==
  /\ eFirePc = "await"
  /\ LET key == Head(eJoinHandles)
     IN /\ Joined(eTasks[key].st)
        /\ IF eTasks[key].st = "panicked"
             THEN /\ eFirePc' = "panicked"
                  /\ eJoinHandles' = <<>>
                  /\ eQueue' = <<>>
                  /\ eInDegrees' = [n \in Nodes |-> 0]
             ELSE /\ eFirePc' = IF Tail(eJoinHandles) # <<>> THEN "await" ELSE "loop"
                  /\ eJoinHandles' = Tail(eJoinHandles)
                  /\ UNCHANGED <<eQueue, eInDegrees>>
  /\ eDelta' = IF eFirePc' = "await" THEN eDelta ELSE {}
  /\ UNCHANGED <<eNodes, eCache, eEdges, eReg, eRegPanic, eAwaitAll, eFireNo,
                 eBatch, eBatchNo, eLog, eRet, eTasks, eLastFired>>
  /\ EventFrame

\* Mutant: fire returns how many of its handler tasks have run to their end.
NodeCountFinished(nodes) ==
  Cardinality({key \in DOMAIN eTasks : eTasks[key].st = "done"})

\* handlers.node_count(): the number of nodes of the graph.
NodeCount(nodes) == Len(nodes)

\* The queue is empty: fire returns handlers.node_count(), dropping its guard
\* and its locals (the join handles still in join_handles are detached).
ReturnFire ==
  /\ eFirePc = "loop"
  /\ eQueue = <<>>
  /\ eRet' = {NodeCount(eNodes)}
  /\ eFirePc' = "returned"
  /\ eJoinHandles' = <<>>
  /\ eInDegrees' = [n \in Nodes |-> 0]
  /\ UNCHANGED <<eNodes, eCache, eEdges, eReg, eRegPanic, eAwaitAll, eFireNo,
                 eQueue, eBatch, eBatchNo, eLog, eTasks, dvars>>
  /\ EventFrame

\* The spawned task `if can_run { run_dyn(..).await }` runs to its end, or
\* panics on the way.
HandlerFinish ==
  \E key \in DOMAIN eTasks, st \in {"done", "panicked"} :
    /\ eTasks[key].st = "running"
    /\ eTasks' = [eTasks EXCEPT ![key].st = st]
    /\ UNCHANGED <<eNodes, eCache, eEdges, eReg, eRegPanic, eFirePc, eAwaitAll,
                   eFireNo, eInDegrees, eQueue, eBatch, eBatchNo, eJoinHandles,
                   eLog, eRet, dvars>>
    /\ EventFrame

\* No insert and no fire is in progress.
InitDispatcher ==
  /\ eReg = [node |-> 0, opts |-> {}]
  /\ eRegPanic = FALSE
  /\ eFirePc = "idle"
  /\ eAwaitAll = FALSE
  /\ eFireNo = 0
  /\ eInDegrees = [n \in Nodes |-> 0]
  /\ eQueue = <<>>
  /\ eBatch = <<>>
  /\ eBatchNo = 0
  /\ eJoinHandles = <<>>
  /\ eLog = <<>>
  /\ eRet = {}
  /\ eTasks = <<>>
  /\ eLastFired = {}
  /\ eDelta = {}

\* DynEventHandlers::new and DynEventDispatcher::new: an empty graph, nothing
\* fired.
InitEvent ==
  /\ eNodes = <<>>
  /\ eCache = [ty \in HandlerKinds |-> 0]
  /\ eEdges = <<>>
  /\ InitDispatcher

NextFire ==
  \/ InsertNode
  \/ InsertOption
  \/ StartFire
  \/ ComputeBatch
  \/ SpawnHandler
  \/ AwaitHandle
  \/ ReturnFire
  \/ HandlerFinish

-----------------------------------------------------------------------------
(* event.rs, handler.rs: the spawned handler tasks *)

\* How often the event is fired when the handlers run against the store.
MaxTicks == 3

\* The slot of the resource the handlers A and B declare, and of the component
\* the handler H increments.
ResKey == [kind |-> "res", ent |-> 0, ty |-> "R"]
CountKey == [kind |-> "comp", ent |-> 1, ty |-> "T"]

\* The parameter of the handler function at node n (each of A, B and H has one).
ParamOf(n) == ParamsOf[eNodes[n]][1]

\* The slot of the resource a Res / ResMut parameter names.
ParamKey(n) == [ResKey EXCEPT !.ty = ParamOf(n).res]

\* The task tokio::spawn made for node n in the fire in progress.
TaskKey(n) == <<eFireNo, n>>

Spawned(n) == TaskKey(n) \in DOMAIN eTasks /\ eTasks[TaskKey(n)].st = "running"

\* EventHandlerMeta::can_run: every resource of required_resources() exists.
MetaCanRun(meta) == \A r \in meta.resources_read \cup meta.resources_written : Has([ResKey EXCEPT !.ty = r])

\* The task of node n ends: normally, or by a panic.
EndTask(n, st) ==
  /\ eTasks' = [eTasks EXCEPT ![TaskKey(n)].st = st]
  /\ hPc' = [hPc EXCEPT ![n] = "none"]

\* usize::from_world_handle: the default value.
FromWorldHandle == 0

\* A mutation of Local::init_state: one cell for all the Local<usize> of the
\* program.
LocalCellByType(n) == 1

\* Local::init_state: Arc::new(RwLock::new(..)), a cell of its own for each
\* call, that is for each handler.
LocalCellOf(n) == n

\* Param::init_state for the handler at node n: the Local's cell, or () for
\* the parameters without state.
InitState(n) == IF ParamOf(n).kind = "Local" THEN LocalCellOf(n) ELSE 0

\* Local::fetch: state.clone(), a Local on the cell of the state.
LocalFetch(state) == state

\* A mutation of run_dyn: the state is taken out of the handler.
RunDynStateTaken(state) == {}

\* run_dyn: state_lock.as_mut().unwrap() borrows the state, which stays in
\* the handler.
RunDynState(state) == state

\* The handlers' parameter state is initialised, once, before the event is
\* dispatched for the first time.
Initialize ==
  /\ ~hInit
  /\ eFirePc = "idle"
  /\ hInit' = TRUE
  /\ hState' = [n \in Nodes |-> IF n <= Len(eNodes) THEN {InitState(n)} ELSE {}]
  /\ hCells' = [c \in Nodes |-> FromWorldHandle]
  /\ UNCHANGED <<hPc, hInvoked, hItem>>
  /\ UNCHANGED <<lvars, ovars, wvars, evars>>

\* WorldHandle::fire_event: get_event under a short world.read(), then fire.
FireEvent ==
  /\ hInit
  /\ eFireNo < MaxTicks
  /\ wWorld.writer = 0 /\ wWorld.queue = <<>>
  /\ BeginFire

\* The spawned task up to Param::can_run: handler.meta.can_run(&world), then
\* run_dyn takes the handler's state lock and unwraps the state, which panics
\* if the handler was never initialised.  Res / ResMut go on to
\* world.has_resource (self.world.read()); the WorldHandle parameter can always
\* run and its fetch is a clone, so func.run is invoked.
RunDyn(n) ==
  /\ Spawned(n) /\ hPc[n] = "none"
  /\ IF ~MetaCanRun(HandlerConfigNew(eNodes[n]).meta)
       THEN EndTask(n, "done") /\ UNCHANGED <<wWorld, hInvoked>>
     ELSE IF hState[n] = {}
       THEN EndTask(n, "panicked") /\ UNCHANGED <<wWorld, hInvoked>>
     ELSE IF ParamOf(n).kind \in {"WorldHandle", "Local"}
       THEN /\ hPc' = [hPc EXCEPT ![n] = "body"]
            /\ hInvoked' = [hInvoked EXCEPT ![n] = @ + 1]
            /\ UNCHANGED <<wWorld, eTasks>>
     ELSE /\ hPc' = [hPc EXCEPT ![n] = "can_run"]
          /\ wWorld' = Acquire(wWorld, n, "r")
          /\ UNCHANGED <<eTasks, hInvoked>>
  /\ hState' = IF MetaCanRun(HandlerConfigNew(eNodes[n]).meta)
               THEN [hState EXCEPT ![n] = RunDynState(@)]
               ELSE hState
  /\ hItem' = IF MetaCanRun(HandlerConfigNew(eNodes[n]).meta)
                 /\ ParamOf(n).kind = "Local"
              THEN [hItem EXCEPT ![n] = LocalFetch(hState[n])]
              ELSE hItem
  /\ UNCHANGED <<wMap, wIndex, wVal, wLock, wPc, wHandles, wCalls, wWritten, wStarted>>
  /\ UNCHANGED <<eNodes, eCache, eEdges, eReg, eRegPanic, eFirePc, eAwaitAll,
                 eFireNo, eInDegrees, eQueue, eBatch, eBatchNo, eJoinHandles,
                 eLog, eRet, dvars>>
  /\ UNCHANGED <<lvars, ovars, hInit, hCells>>

\* Mutant: Res / ResMut can always run.
ParamCanRunAlways(p) == TRUE

\* HandlerParam::can_run of Res<T> / ResMut<T>: world.has_resource::<T>().
ParamCanRun(p) == Has([ResKey EXCEPT !.ty = p.res])

\* Param::can_run of Res<T> / ResMut<T>: world.has_resource::<T>() under the
\* world's read lock.  When the resource is missing run_dyn returns without
\* invoking the function; else it goes on to fetch, world.get_resource() /
\* get_resource_mut(), which asks for self.world.read() again.
CanRun(n) ==
  /\ hPc[n] = "can_run"
  /\ Granted(wWorld, n, "r")
  /\ IF ParamCanRun(ParamOf(n))
       THEN /\ hPc' = [hPc EXCEPT ![n] = "fetch"]
            /\ wWorld' = Acquire(Release(wWorld, n, "r"), n, "r")
            /\ wPc' = [wPc EXCEPT ![n] =
                         [op |-> IF ParamOf(n).kind = "Res" THEN "get" ELSE "get_mut",
                          stage |-> "world", key |-> [ResKey EXCEPT !.ty = ParamOf(n).res],
                          gen |-> 0, val |-> {}]]
            /\ UNCHANGED eTasks
       ELSE /\ EndTask(n, "done")
            /\ wWorld' = Release(wWorld, n, "r")
            /\ UNCHANGED wPc
  /\ UNCHANGED <<wMap, wIndex, wVal, wLock, wHandles, wCalls, wWritten, wStarted>>
  /\ UNCHANGED <<eNodes, eCache, eEdges, eReg, eRegPanic, eFirePc, eAwaitAll,
                 eFireNo, eInDegrees, eQueue, eBatch, eBatchNo, eJoinHandles,
                 eLog, eRet, dvars>>
  /\ UNCHANGED <<lvars, ovars, hInit, hInvoked, svars>>

\* fetch has returned: .unwrap() panics on None, else the state lock is
\* dropped and func.run(world, event, param) is invoked.
Invoke(n) ==
  /\ hPc[n] = "fetch"
  /\ wPc[n].op = "idle"
  /\ IF wHandles[n] = {}
       THEN EndTask(n, "panicked") /\ UNCHANGED hInvoked
       ELSE /\ hPc' = [hPc EXCEPT ![n] = "body"]
            /\ hInvoked' = [hInvoked EXCEPT ![n] = @ + 1]
            /\ UNCHANGED eTasks
  /\ UNCHANGED <<eNodes, eCache, eEdges, eReg, eRegPanic, eFirePc, eAwaitAll,
                 eFireNo, eInDegrees, eQueue, eBatch, eBatchNo, eJoinHandles,
                 eLog, eRet, dvars>>
  /\ UNCHANGED <<lvars, ovars, wvars, hInit, svars>>

\* The function of H: world.get_mut::<i32>(e) is called.
BodyGetMut(n) ==
  /\ hPc[n] = "body"
  /\ ParamOf(n).kind = "WorldHandle"
  /\ hPc' = [hPc EXCEPT ![n] = "body_get"]
  /\ wWorld' = Acquire(wWorld, n, "r")
  /\ wPc' = [wPc EXCEPT ![n] = [op |-> "get_mut", stage |-> "world", key |-> CountKey,
                                gen |-> 0, val |-> {}]]
  /\ UNCHANGED <<wMap, wIndex, wVal, wLock, wHandles, wCalls, wWritten, wStarted>>
  /\ UNCHANGED <<lvars, ovars, evars, hInit, hInvoked, svars>>

\* The function returns, dropping its Res / ResMut parameter or its Mut: the
\* function of A and B has stored its node's number in the resource, the
\* function of H has added one to the counter if the entity has one, the
\* function of L and M has added one to its Local (`*local += 1` under
\* local.get_mut()).
HandlerReturn(n) ==
  /\ \/ hPc[n] = "body" /\ ParamOf(n).kind # "WorldHandle"
     \/ hPc[n] = "body_get" /\ wPc[n].op = "idle"
  /\ EndTask(n, "done")
  /\ wHandles' = [wHandles EXCEPT ![n] = {}]
  /\ IF wHandles[n] = {}
       THEN UNCHANGED <<wVal, wWritten, wLock>>
       ELSE LET h == CHOOSE h \in wHandles[n] : TRUE
                new == IF h.kind = "Ref" THEN wVal[h.store]
                       ELSE IF ParamOf(n).kind = "WorldHandle"
                         THEN {v + 1 : v \in wVal[h.store]}
                       ELSE {n}
            IN /\ wVal' = [wVal EXCEPT ![h.store] = new]
               /\ wWritten' = [wWritten EXCEPT ![h.store] = new]
               /\ wLock' = [wLock EXCEPT ![h.store] = Release(@, n, h.mode)]
  /\ UNCHANGED <<wMap, wIndex, wWorld, wPc, wCalls, wStarted>>
  /\ UNCHANGED <<eNodes, eCache, eEdges, eReg, eRegPanic, eFirePc, eAwaitAll,
                 eFireNo, eInDegrees, eQueue, eBatch, eBatchNo, eJoinHandles,
                 eLog, eRet, dvars>>
  /\ hCells' = [c \in Nodes |-> IF c \in hItem[n] THEN hCells[c] + 1 ELSE hCells[c]]
  /\ hItem' = [hItem EXCEPT ![n] = {}]
  /\ UNCHANGED <<lvars, ovars, hInit, hInvoked, hState>>

\* The graphs the handlers are run on: H alone; A and B independent of each
\* other; A and H with B registered after A; L and M, each with a Local<usize>.
RunGraphs ==
  {[nodes |-> <<"H">>, edges |-> <<>>],
   [nodes |-> <<"A", "B">>, edges |-> <<>>],
   [nodes |-> <<"A", "H", "B">>, edges |-> <<<<1, 3>>>>],
   [nodes |-> <<"L", "M">>, edges |-> <<>>]}

IndexOf(nodes, ty) == IF \E i \in 1..Len(nodes) : nodes[i] = ty
                        THEN CHOOSE i \in 1..Len(nodes) : nodes[i] = ty
                        ELSE 0

InitHandlers ==
  /\ hPc = [n \in Nodes |-> "none"]
  /\ hInit = FALSE
  /\ hState = [n \in Nodes |-> {}]
  /\ hCells = [c \in Nodes |-> FromWorldHandle]
  /\ hItem = [n \in Nodes |-> {}]
  /\ hInvoked = [n \in Nodes |-> 0]

NextRun ==
  \/ Initialize
  \/ FireEvent
  \/ ComputeBatch
  \/ SpawnHandler
  \/ AwaitHandle
  \/ ReturnFire
  \/ \E n \in Nodes :
       \/ RunDyn(n)
       \/ CanRun(n)
       \/ Lookup(n)
       \/ Obtain(n)
       \/ Invoke(n)
       \/ BodyGetMut(n)
       \/ HandlerReturn(n)

\* WorldHandle::remove_resource::<R>() is called by a task that is not a
\* handler task, once the handlers are set up and while R exists:
\* self.world.write() is requested; Resources::remove follows (RemoveApply,
\* TakeOld).
RemoveResource(t) ==
  /\ t > Len(eNodes)
  /\ hInit
  /\ wPc[t].op = "idle"
  /\ Has(ResKey)
  /\ wWorld' = Acquire(wWorld, t, "w")
  /\ wPc' = [wPc EXCEPT ![t] = [op |-> "remove", stage |-> "world", key |-> ResKey,
                                gen |-> 0, val |-> {}]]
  /\ UNCHANGED <<wMap, wIndex, wVal, wLock, wHandles, wCalls, wWritten, wStarted>>
  /\ WorldFrame

\* The handlers run while another task removes the resource.
NextRunRemove ==
  \/ NextRun
  \/ \E t \in Tasks :
       \/ RemoveResource(t)
       \/ RemoveApply(t)
       \/ TakeOld(t)

-----------------------------------------------------------------------------
(* Bounds of the query model *)

MaxMods == 1

\* Two entities and two component types; the task that iterates a query and
\* one other task that holds checkouts.
QEntities == {1, 2}
QTypes == {"T", "U"}
QSlots == QEntities \X QTypes
OutsideTask == 1
QueryTask == 2

\* The task that uses queries constructs two of them.
QueryNames == {1, 2}

\* The Queryable kinds: Entity, &T and &mut T.
EntityKind == [kind |-> "Entity", ty |-> "-"]
ReadKind(ty) == [kind |-> "Read", ty |-> ty]
WriteKind(ty) == [kind |-> "Write", ty |-> ty]

\* The queries the application constructs: Query<(&T, &mut U)>,
\* Query<(&mut U, &T)> and Query<(Entity, &mut U)>.
QueryKinds ==
  {<<ReadKind("T"), WriteKind("U")>>,
   <<WriteKind("U"), ReadKind("T")>>,
   <<EntityKind, WriteKind("U")>>}

-----------------------------------------------------------------------------
(* query.rs: Query::new, Query::get, Query::iter over component.rs *)

\* Components::entity_iter(): the keys of entity_map.
AllEntities == qKnown

\* Components::has::<T>(entity).
ComponentsHas(e, ty) == <<e, ty>> \in qEntityMap

\* Components::entities_with::<T>(): the entities component_map lists under T.
ComponentsEntitiesWith(ty) == {s[1] : s \in {c \in qComponentMap : c[2] = ty}}

\* Mutant: &T removes nothing from the candidate set.
FilterReadNone(state, ty) == state

\* <&T as Queryable>::filter_state: the entities for which world.has::<T>() is
\* false are removed.
FilterRead(state, ty) == {e \in state : ComponentsHas(e, ty)}

\* <&mut T as Queryable>::filter_state: retain the entities that are in
\* world.entities_with::<T>().
FilterWrite(state, ty) == {e \in state : e \in ComponentsEntitiesWith(ty)}

\* Queryable::filter_state of one kind; Entity's is empty.
FilterOne(kind, state) ==
  CASE kind.kind = "Read" -> FilterRead(state, kind.ty)
    [] kind.kind = "Write" -> FilterWrite(state, kind.ty)
    [] OTHER -> state

\* filter_state of a tuple: the kinds' filters one after the other.
RECURSIVE FilterState(_, _)
FilterState(kinds, state) ==
  IF kinds = <<>> THEN state
  ELSE FilterState(Tail(kinds), FilterOne(Head(kinds), state))

\* state.entities_matching.iter(): the set's iteration order, the same each
\* time the set is iterated (here by entity number).
RECURSIVE InOrder(_)
InOrder(S) ==
  IF S = {} THEN <<>>
  ELSE LET m == CHOOSE x \in S : \A y \in S : x <= y
       IN <<m>> \o InOrder(S \ {m})

\* No iteration has been started.
NoIter == [q |-> 0, st |-> "none", run |-> <<>>, blocked |-> <<>>, out |-> <<>>,
           woken |-> FALSE]

NoGet == [q |-> 0, e |-> 0, res |-> "none"]

\* The task that uses the queries is not in the middle of an iteration (whose
\* waiting get futures would hold self.world.read()).
NotIterating == qIter.st \in {"none", "ended", "panicked"}

\* Components::insert of a component the entity does not have (there is no old
\* storage to wait for), under WorldHandle::insert's world.write(), which is
\* granted when no get holds world.read().
QInsert ==
  \E e \in QEntities, ty \in QTypes :
    /\ qMods < MaxMods
    /\ NotIterating
    /\ <<e, ty>> \notin qEntityMap
    /\ qComponentMap' = qComponentMap \cup {<<e, ty>>}
    /\ qEntityMap' = qEntityMap \cup {<<e, ty>>}
    /\ qKnown' = qKnown \cup {e}
    /\ qMods' = qMods + 1
    /\ qGot' = NoGet
    /\ UNCHANGED <<qLock, qQueries, qSnap, qIter>>
    /\ QueryFrame

\* Components::remove of a component nobody has checked out: the entry leaves
\* entity_map and component_map, the entity stays a key of entity_map.
QRemove ==
  \E e \in QEntities, ty \in QTypes :
    /\ qMods < MaxMods
    /\ NotIterating
    /\ <<e, ty>> \in qEntityMap
    /\ qLock[<<e, ty>>] = FreeLock
    /\ qEntityMap' = qEntityMap \ {<<e, ty>>}
    /\ qComponentMap' = qComponentMap \ {<<e, ty>>}
    /\ qMods' = qMods + 1
    /\ qGot' = NoGet
    /\ UNCHANGED <<qKnown, qLock, qQueries, qSnap, qIter>>
    /\ QueryFrame

\* Another task checks a component out (get / get_mut on a storage whose lock
\* is granted at once) and keeps the Ref / Mut.
OutsideHold ==
  \E slot \in QSlots, mode \in {"r", "w"} :
    /\ slot \in qEntityMap
    \* the other task takes its checkout before the first iteration
    /\ qIter.st = "none"
    /\ \A s \in QSlots : OutsideTask \notin qLock[s].readers /\ qLock[s].writer # OutsideTask
    /\ qLock[slot].queue = <<>> /\ CanGrant(qLock[slot], mode)
    /\ qLock' = [qLock EXCEPT ![slot] = Grant(@, OutsideTask, mode)]
    /\ UNCHANGED <<qKnown, qEntityMap, qComponentMap, qMods, qQueries, qSnap, qIter, qGot>>
    /\ QueryFrame

\* The index of the stream whose future for the slot's entity is blocked, 0 if
\* there is none.
BlockedStream(slot) ==
  IF \E i \in DOMAIN qIter.blocked :
       qQueries[qIter.q].kinds[i].ty = slot[2] /\ slot[1] \in qIter.blocked[i]
    THEN CHOOSE i \in DOMAIN qIter.blocked :
           qQueries[qIter.q].kinds[i].ty = slot[2] /\ slot[1] \in qIter.blocked[i]
    ELSE 0

\* The other task drops its Ref / Mut.  A get future of the iteration that
\* waited for the lock is granted it and woken: FuturesUnordered puts it at the
\* end of its ready-to-run queue and wakes the consumer.
OutsideDrop ==
  \E slot \in QSlots, mode \in {"r", "w"} :
    /\ Granted(qLock[slot], OutsideTask, mode)
    /\ LET l == Release(qLock[slot], OutsideTask, mode)
           i == BlockedStream(slot)
       IN /\ qLock' = [qLock EXCEPT ![slot] = l]
          /\ IF i # 0 /\ ~Waiting(l, QueryTask)
               THEN qIter' = [qIter EXCEPT !.blocked[i] = @ \ {slot[1]},
                                           !.run[i] = Append(@, slot[1]),
                                           !.woken = TRUE]
               ELSE UNCHANGED qIter
    /\ UNCHANGED <<qKnown, qEntityMap, qComponentMap, qMods, qQueries, qSnap, qGot>>
    /\ QueryFrame

\* Query::new: entities_matching starts as world.all_entities() and is
\* filtered by Q::filter_state.
QueryNew ==
  \E kinds \in QueryKinds :
    /\ Len(qQueries) < Cardinality(QueryNames)
    /\ NotIterating
    /\ qQueries' = Append(qQueries, [kinds |-> kinds,
                                     entities_matching |-> FilterState(kinds, AllEntities)])
    /\ qSnap' = Append(qSnap, [known |-> qKnown, entity_map |-> qEntityMap,
                               mods |-> qMods])
    /\ qGot' = NoGet
    /\ UNCHANGED <<qKnown, qEntityMap, qComponentMap, qLock, qMods, qIter>>
    /\ QueryFrame

\* Mutant: get does not consult entities_matching.
GetContainsAlways(q, e) == TRUE

\* `if state.entities_matching.contains(&entity)` of <&T>::get and <&mut T>::get.
GetContains(q, e) == e \in q.entities_matching

ModeOfKind(kind) == IF kind.kind = "Read" THEN "r" ELSE "w"

\* Queryable::get of one kind: Entity gives Some(entity); &T / &mut T give
\* None outside entities_matching and else what world.get / get_mut gives,
\* which is None when the entity has no such component and waits while the
\* storage's lock is not free.
GetOne(kind, q, e) ==
  IF kind.kind = "Entity" THEN "some"
  ELSE IF ~GetContains(q, e) THEN "none"
  ELSE IF ~ComponentsHas(e, kind.ty) THEN "none"
  ELSE IF qLock[<<e, kind.ty>>].queue = <<>> /\ CanGrant(qLock[<<e, kind.ty>>], ModeOfKind(kind))
    THEN "some"
  ELSE "wait"

\* Queryable::get of a tuple: `$name::get(world, state, entity).await?` for the
\* kinds in turn.
RECURSIVE GetFrom(_, _, _)
GetFrom(kinds, q, e) ==
  IF kinds = <<>> THEN "some"
  ELSE LET r == GetOne(Head(kinds), q, e)
       IN IF r = "some" THEN GetFrom(Tail(kinds), q, e) ELSE r

\* Query::get(entity) on a constructed query, when it does not have to wait;
\* the caller drops what it was given.
QueryGet ==
  \E n \in 1..Len(qQueries), e \in QEntities :
    /\ NotIterating
    /\ GetFrom(qQueries[n].kinds, qQueries[n], e) # "wait"
    /\ qGot' = [q |-> n, e |-> e, res |-> GetFrom(qQueries[n].kinds, qQueries[n], e)]
    /\ UNCHANGED <<qKnown, qEntityMap, qComponentMap, qLock, qMods, qQueries, qSnap,
                   qIter>>
    /\ QueryFrame

\* Query::iter: one stream per kind.  Entity's is stream::iter over
\* entities_matching; &T's and &mut T's is a FuturesUnordered with one
\* world.get / get_mut future per entity of entities_matching, all of them in
\* its ready-to-run queue in the order they were pushed.
IterStart ==
  \E n \in 1..Len(qQueries) :
    /\ NotIterating
    \* each query is iterated once, the queries in the order of their construction
    /\ n > qIter.q
    /\ qIter' = [q |-> n, st |-> "next",
                 run |-> [i \in 1..Len(qQueries[n].kinds) |->
                            InOrder(qQueries[n].entities_matching)],
                 blocked |-> [i \in 1..Len(qQueries[n].kinds) |-> {}],
                 out |-> <<>>, woken |-> FALSE]
    /\ qGot' = NoGet
    /\ UNCHANGED <<qKnown, qEntityMap, qComponentMap, qLock, qMods, qQueries, qSnap>>
    /\ QueryFrame

\* poll_next of the Entity stream: the next entity, None at the end.
PollEntityStream(i, st) ==
  IF st.run[i] = <<>> THEN [st EXCEPT !.res = "none"]
  ELSE [st EXCEPT !.run[i] = Tail(@), !.items = Append(@, Head(st.run[i]))]

\* poll_next of a FuturesUnordered of get futures: the futures of the
\* ready-to-run queue are polled in turn.  A future whose storage lock is
\* granted completes and its Ref / Mut is returned at once; one that has to
\* wait queues up at the lock and leaves the ready-to-run queue until it is
\* woken; `.unwrap()` panics when the entity has no such component any more.
\* With the queue empty the result is None if no future is left, else Pending.
RECURSIVE PollFutures(_, _, _)
PollFutures(i, kind, st) ==
  IF st.run[i] = <<>>
    THEN [st EXCEPT !.res = IF st.blocked[i] = {} THEN "none" ELSE "pending"]
  ELSE LET e == Head(st.run[i])
           slot == <<e, kind.ty>>
           mode == ModeOfKind(kind)
           rest == [st EXCEPT !.run[i] = Tail(@)]
       IN IF ~ComponentsHas(e, kind.ty) THEN [rest EXCEPT !.res = "panic"]
          ELSE IF Granted(st.lock[slot], QueryTask, mode)
            THEN [rest EXCEPT !.items = Append(@, e)]
          ELSE IF Granted(Acquire(st.lock[slot], QueryTask, mode), QueryTask, mode)
            THEN [rest EXCEPT !.lock[slot] = Acquire(@, QueryTask, mode),
                              !.items = Append(@, e)]
          ELSE PollFutures(i, kind,
                           [rest EXCEPT !.lock[slot] = Acquire(@, QueryTask, mode),
                                        !.blocked[i] = @ \cup {e}])

\* ZipStream::poll_next: the streams are polled in the order of the tuple;
\* Ready(Some(elt)) goes on to the next stream, Ready(None) and Pending return.
RECURSIVE ZipStreamPoll(_, _, _)
ZipStreamPoll(kinds, i, st) ==
  IF i > Len(kinds) THEN [st EXCEPT !.res = "some"]
  ELSE LET r == IF kinds[i].kind = "Entity" THEN PollEntityStream(i, st)
                ELSE PollFutures(i, kinds[i], st)
       IN IF r.res = "go" THEN ZipStreamPoll(kinds, i + 1, r) ELSE r

\* The Refs / Muts among the items are dropped: their guards are released.
RECURSIVE DropItems(_, _, _)
DropItems(kinds, items, lock) ==
  IF items = <<>> THEN lock
  ELSE LET j == Len(items)
       IN DropItems(kinds, SubSeq(items, 1, j - 1),
                    IF kinds[j].kind = "Entity" THEN lock
                    ELSE [lock EXCEPT ![<<items[j], kinds[j].ty>>] =
                                        Release(@, QueryTask, ModeOfKind(kinds[j]))])

\* The streams are dropped: the futures that still wait leave the locks' queues.
DropStreams(lock) ==
  [s \in QSlots |->
     Drain([readers |-> lock[s].readers \ {QueryTask},
            writer |-> IF lock[s].writer = QueryTask THEN 0 ELSE lock[s].writer,
            queue |-> SelectSeq(lock[s].queue, LAMBDA w : w.task # QueryTask)])]

\* `iter.next().await` of the consumer (WorldHandle::query_iter): one poll of
\* the stream, the first one or one after a wake-up.  A tuple that is yielded
\* is handed to the loop body, which drops it before the next poll; at None or
\* a panic the consumer drops the stream.
IterNext ==
  /\ qIter.st = "next" \/ (qIter.st = "pending" /\ qIter.woken)
  /\ LET kinds == qQueries[qIter.q].kinds
         r == ZipStreamPoll(kinds, 1, [run |-> qIter.run, blocked |-> qIter.blocked,
                                       lock |-> qLock, items |-> <<>>, res |-> "go"])
         dropped == DropItems(kinds, r.items, r.lock)
     IN /\ qIter' = [q |-> qIter.q,
                     st |-> CASE r.res = "some" -> "next"
                              [] r.res = "none" -> "ended"
                              [] r.res = "pending" -> "pending"
                              [] OTHER -> "panicked",
                     run |-> IF r.res \in {"none", "panic"}
                               THEN [i \in DOMAIN r.run |-> <<>>] ELSE r.run,
                     blocked |-> IF r.res \in {"none", "panic"}
                                   THEN [i \in DOMAIN r.blocked |-> {}] ELSE r.blocked,
                     out |-> IF r.res = "some" THEN Append(qIter.out, r.items)
                             ELSE qIter.out,
                     woken |-> FALSE]
        /\ qLock' = IF r.res \in {"none", "panic"} THEN DropStreams(dropped) ELSE dropped
  /\ qGot' = NoGet
  /\ UNCHANGED <<qKnown, qEntityMap, qComponentMap, qMods, qQueries, qSnap>>
  /\ QueryFrame

\* No query, no iteration, no checkout.
InitQueryIdle ==
  /\ qLock = [s \in QSlots |-> FreeLock]
  /\ qMods = 0
  /\ qQueries = <<>>
  /\ qSnap = <<>>
  /\ qIter = NoIter
  /\ qGot = NoGet

\* Components::default(): no entity has a component.
InitQuery ==
  /\ qKnown = {}
  /\ qEntityMap = {}
  /\ qComponentMap = {}
  /\ InitQueryIdle

\* The stores the queries are constructed on: each entity has been given some
\* of the two components (an entity given none is not a key of entity_map).
InitQueryStores ==
  {{<<1, "T">>, <<1, "U">>, <<2, "T">>},
   {<<1, "T">>, <<1, "U">>, <<2, "T">>, <<2, "U">>}}

\* The parts that are specified on their own, at rest.
NextQuery ==
  \/ QInsert
  \/ QRemove
  \/ OutsideHold
  \/ OutsideDrop
  \/ QueryNew
  \/ QueryGet
  \/ IterStart
  \/ IterNext

-----------------------------------------------------------------------------
(* Bounds of the event registry model *)

\* How many EventDispatcher handles are obtained.
MaxHandles == 2
\* How many handlers are registered.
MaxNodes == 1
\* How many times an event is fired through a handle.
MaxInstants == 2

\* The event types T of add_event::<T>().
EventTypes == {"E1", "E2"}

\* The handler functions registered.
RegFns == {"f", "g"}

-----------------------------------------------------------------------------
(* handler.rs: Events; event.rs: EventDispatcher, DynEventDispatcher *)

\* DynEventDispatcher::new: an empty graph and last_fired = None, both behind
\* new Arcs.  A dispatcher is named by its place in rDispatchers.
NewDispatcher(ty) == [type_id |-> ty, handlers |-> <<>>, last_fired |-> {}]

\* A mutation of get_event: the entry is never found.
EventsGetEventNone(ty) == {}

\* Events::get_event: entries.get_for::<T>()?.clone().  The clone shares the
\* Arcs of the graph and of last_fired, so it is the same dispatcher.
EventsGetEvent(ty) == rEntries[ty]

\* Events::add_event, as a function of the registry: the dispatcher returned,
\* the dispatchers and the entries afterwards.
EventsAddEvent(ty) ==
  IF EventsGetEvent(ty) # {}
  THEN [event |-> CHOOSE d \in EventsGetEvent(ty) : TRUE,
        dispatchers |-> rDispatchers,
        entries |-> rEntries]
  ELSE [event |-> Len(rDispatchers) + 1,
        dispatchers |-> Append(rDispatchers, NewDispatcher(ty)),
        entries |-> [rEntries EXCEPT ![ty] = {Len(rDispatchers) + 1}]]

\* EventDispatcher::from_dyn_event: the handle given to the caller.
FromDynEvent(ty, d) == [ty |-> ty, event |-> d]

\* let event = events.add_event::<T>();
AddEvent ==
  \E ty \in EventTypes :
    LET r == EventsAddEvent(ty) IN
    /\ Len(rHandles) < MaxHandles
    /\ rDispatchers' = r.dispatchers
    /\ rEntries' = r.entries
    /\ rHandles' = Append(rHandles, FromDynEvent(ty, r.event))
    /\ rLast' = [op |-> "add_event", ty |-> ty, handle |-> Len(rHandles) + 1,
                 invoked |-> <<>>]
    /\ UNCHANGED <<rRegistered, rFiredAt, rClock>>
    /\ RegistryFrame

\* let event = events.get_event::<T>();  None leaves the caller without a handle.
GetEvent ==
  \E ty \in EventTypes :
    /\ Len(rHandles) < MaxHandles
    /\ rHandles' = IF EventsGetEvent(ty) = {} THEN rHandles
                   ELSE Append(rHandles,
                               FromDynEvent(ty, CHOOSE d \in EventsGetEvent(ty) : TRUE))
    /\ rLast' = [op |-> "get_event", ty |-> ty,
                 handle |-> IF EventsGetEvent(ty) = {} THEN 0 ELSE Len(rHandles) + 1,
                 invoked |-> <<>>]
    /\ UNCHANGED <<rEntries, rDispatchers, rRegistered, rFiredAt, rClock>>
    /\ RegistryFrame

\* DynEventDispatcher::add_handler: handlers.insert adds a node to the graph
\* the dispatcher shares with its clones.
DispatcherAddHandler(dispatchers, d, f) ==
  [dispatchers EXCEPT ![d].handlers = Append(@, f)]

\* How many handlers have been registered so far.
NodesRegistered == Len(rRegistered["E1"]) + Len(rRegistered["E2"])

\* event.add_handler(f) on a handle obtained before.
HandleAddHandler ==
  \E h \in DOMAIN rHandles, f \in RegFns :
    /\ NodesRegistered < MaxNodes
    /\ rDispatchers' = DispatcherAddHandler(rDispatchers, rHandles[h].event, f)
    /\ rRegistered' = [rRegistered EXCEPT ![rHandles[h].ty] =
                       Append(@, [fn |-> f, via |-> h, handles |-> Len(rHandles)])]
    /\ rLast' = [op |-> "add_handler", ty |-> rHandles[h].ty, handle |-> h,
                 invoked |-> <<>>]
    /\ UNCHANGED <<rEntries, rHandles, rFiredAt, rClock>>
    /\ RegistryFrame

\* Events::add_handler: add_event::<T>() and add_handler on what it returns;
\* the handle is dropped.
EventsAddHandler ==
  \E ty \in EventTypes, f \in RegFns :
    LET r == EventsAddEvent(ty) IN
    /\ NodesRegistered < MaxNodes
    /\ rDispatchers' = DispatcherAddHandler(r.dispatchers, r.event, f)
    /\ rEntries' = r.entries
    /\ rRegistered' = [rRegistered EXCEPT ![ty] =
                       Append(@, [fn |-> f, via |-> 0, handles |-> Len(rHandles)])]
    /\ rLast' = [op |-> "events_add_handler", ty |-> ty, handle |-> 0,
                 invoked |-> <<>>]
    /\ UNCHANGED <<rHandles, rFiredAt, rClock>>
    /\ RegistryFrame

\* event.fire(world, payload, true) on a handle, from its call to its return:
\* the handlers of the dispatcher's graph are invoked (none of them was
\* registered with an option, so they form one batch), and last_fired is
\* replaced by the instant of the batch; a graph without a node has no batch.
HandleFire ==
  \E h \in DOMAIN rHandles :
    LET d == rHandles[h].event IN
    /\ rClock < MaxInstants
    /\ rClock' = rClock + 1
    /\ rDispatchers' =
         IF rDispatchers[d].handlers = <<>> THEN rDispatchers
         ELSE [rDispatchers EXCEPT ![d].last_fired = {rClock'}]
    /\ rFiredAt' =
         IF rDispatchers[d].handlers = <<>> THEN rFiredAt
         ELSE [rFiredAt EXCEPT ![rHandles[h].ty] = {rClock'}]
    /\ rLast' = [op |-> "fire", ty |-> rHandles[h].ty, handle |-> h,
                 invoked |-> rDispatchers[d].handlers]
    /\ UNCHANGED <<rEntries, rHandles, rRegistered>>
    /\ RegistryFrame

\* Events::default(): no entry; nothing registered, nothing fired.
InitRegistry ==
  /\ rEntries = [ty \in EventTypes |-> {}]
  /\ rDispatchers = <<>>
  /\ rHandles = <<>>
  /\ rRegistered = [ty \in EventTypes |-> <<>>]
  /\ rFiredAt = [ty \in EventTypes |-> {}]
  /\ rLast = [op |-> "none", ty |-> "E1", handle |-> 0, invoked |-> <<>>]
  /\ rClock = 0

NextRegistry ==
  \/ AddEvent
  \/ GetEvent
  \/ HandleAddHandler
  \/ EventsAddHandler
  \/ HandleFire

-----------------------------------------------------------------------------
(* Bounds of the run_window model *)

\* How many tick events the tick task fires.
MaxWindowTicks == 2

\* The handler graphs of the events run_window fires: one handler; two
\* handlers in one batch; two handlers in two batches; three handlers, B
\* after A.
WindowGraphs ==
  {[nodes |-> <<"A">>, edges |-> <<>>],
   [nodes |-> <<"A", "B">>, edges |-> <<>>],
   [nodes |-> <<"A", "B">>, edges |-> <<<<1, 2>>>>],
   [nodes |-> <<"A", "H", "B">>, edges |-> <<<<1, 3>>>>]}

-----------------------------------------------------------------------------
(* kyrene-graphics window.rs: RunWindow::run_window *)

\* A mutation of the startup call: the handlers are not awaited.
StartupAwaitNone == FALSE

\* `view.fire_event(WorldStartup, true)`: the await_all_handlers argument.
StartupAwaitAll == TRUE

\* A mutation of the tick task: the counter is left as it is.
NextTickSame(tick) == tick

\* `tick += 1`.
NextTick(tick) == tick + 1

\* The payloads of the two events.
WorldStartup == [event |-> "WorldStartup", tick |-> 0]
WorldTick(tick) == [event |-> "WorldTick", tick |-> tick]

\* `view.fire_event(..).await` has returned: the fire of the last call has
\* returned its node count.
FireEventReturned == eFireNo = aCalls /\ eFirePc = "returned"

\* The async block calls view.fire_event(WorldStartup, true).
CallStartup ==
  /\ aPc = "start"
  /\ aPc' = "startup_fire"
  /\ aCalls' = aCalls + 1
  /\ aAwait' = StartupAwaitAll
  /\ aLog' = Append(aLog, WorldStartup)
  /\ UNCHANGED aTick
  /\ WindowFrame

\* WorldHandle::fire_event: get_event().unwrap(), then dis.fire(world, event,
\* await_all_handlers) with the argument of the call.
WindowFire ==
  /\ eFireNo < aCalls
  /\ BeginFire
  /\ eAwaitAll' = aAwait

\* The startup fire_event has returned; the async block goes on to
\* view.insert_resource(window_settings).
StartupReturned ==
  /\ aPc = "startup_fire"
  /\ FireEventReturned
  /\ aPc' = "insert_resource"
  /\ UNCHANGED <<aTick, aCalls, aAwait, aLog>>
  /\ WindowFrame

\* insert_resource has returned; `let mut tick = 0` and the tick task is
\* spawned.
SpawnTickTask ==
  /\ aPc = "insert_resource"
  /\ aPc' = "tick_loop"
  /\ aTick' = 0
  /\ UNCHANGED <<aCalls, aAwait, aLog>>
  /\ WindowFrame

\* The tick task: `tick += 1; view.fire_event(WorldTick { tick }, true)`.
CallTick ==
  /\ aPc = "tick_loop"
  /\ aTick < MaxWindowTicks
  /\ aTick' = NextTick(aTick)
  /\ aPc' = "tick_fire"
  /\ aCalls' = aCalls + 1
  /\ aAwait' = TRUE
  /\ aLog' = Append(aLog, WorldTick(aTick'))
  /\ WindowFrame

\* The tick's fire_event has returned; the loop goes round.
TickReturned ==
  /\ aPc = "tick_fire"
  /\ FireEventReturned
  /\ aPc' = "tick_loop"
  /\ UNCHANGED <<aTick, aCalls, aAwait, aLog>>
  /\ WindowFrame

\* runtime.block_on has just been entered: nothing fired yet.
InitWindow ==
  /\ aPc = "start"
  /\ aTick = 0
  /\ aCalls = 0
  /\ aAwait = FALSE
  /\ aLog = <<>>

NextWindow ==
  \/ CallStartup
  \/ WindowFire
  \/ StartupReturned
  \/ SpawnTickTask
  \/ CallTick
  \/ TickReturned
  \/ ComputeBatch
  \/ SpawnHandler
  \/ AwaitHandle
  \/ ReturnFire
  \/ HandlerFinish

-----------------------------------------------------------------------------
(* world_view.rs, world.rs, util.rs: deferred operations and the identifiers *)

\* How many operations are deferred, and how many identifiers are issued.
MaxDefers == 3
MaxIds == 2

\* The tasks that hold a WorldView (the handler tasks and the tick task).
ViewTasks == {1, 2}

\* The operations deferred: WorldView::entity, insert::<T> and remove::<T>.
DeferKinds == {"entity", "insert", "remove"}

\* The identifiers issued so far.
IssuedIds == {vIssued[i] : i \in DOMAIN vIssued}

\* Mutant: the counter is read and left as it is.
FetchAddSame(next) == next

\* `NEXT_ID.fetch_add(1, Ordering::Relaxed)`: one atomic read-modify-write; the
\* identifier is the value read.  The counter is an AtomicU64; it is kept
\* below MaxIds here.
FetchAdd(next) == next + 1

\* Entities::alloc: a new identifier from the process-wide counter.
EntitiesAlloc ==
  /\ vNextId < MaxIds
  /\ vIssued' = Append(vIssued, vNextId)
  /\ vNextId' = FetchAdd(vNextId)

\* World::entity
WorldEntity == EntitiesAlloc

\* WorldHandle::entity: `self.world.write().await.entity()`, from any task, at
\* any time.
HandleEntity ==
  /\ WorldEntity
  /\ UNCHANGED <<vQueue, vRunning, vPc, vRx, vGot, vSent, vApplied, vComp>>
  /\ ViewFrame

\* WorldView::defer up to its await: a channel(1) for the result is made and
\* the Deferred is sent on the unbounded channel.
Defer(t) ==
  \E kind \in DeferKinds, ent \in 0 .. MaxIds - 1 :
    /\ vPc[t].at = "idle"
    /\ Len(vSent) < MaxDefers
    /\ IF kind = "entity" THEN ent = 0 ELSE ent \in IssuedIds
    /\ LET id == Len(vSent) + 1
       IN /\ vQueue' = Append(vQueue, [id |-> id, caller |-> t, kind |-> kind, ent |-> ent])
          /\ vSent' = Append(vSent, id)
          /\ vPc' = [vPc EXCEPT ![t] = [at |-> "recv", op |-> id]]
    /\ vRx' = [vRx EXCEPT ![t] = <<>>]
    /\ UNCHANGED <<vRunning, vGot, vApplied, vNextId, vIssued, vComp>>
    /\ ViewFrame

\* Mutant: the operation is spawned, the loop goes on to the next one.
OpRunSpawned == FALSE

\* `op.run(&mut self).await`: the loop awaits the operation it has taken.
OpRunAwaited == TRUE

\* `while let Some(op) = op_rx.recv().await`: the task that owns the World
\* takes the operation at the head of the channel.
ApplierRecv ==
  /\ vQueue # <<>>
  /\ OpRunAwaited => vRunning = {}
  /\ \A r \in vRunning : r.st # "panicked"
  /\ vRunning' = vRunning \cup {[op |-> Head(vQueue), st |-> "taken",
                                result |-> [id |-> 0, had |-> FALSE]]}
  /\ vQueue' = Tail(vQueue)
  /\ UNCHANGED <<vPc, vRx, vGot, vSent, vApplied, vNextId, vIssued, vComp>>
  /\ ViewFrame

\* `(self.task)(world).await` in Deferred::run: the closure runs on &mut World.
\* entity returns the new identifier, insert and remove whether the entity
\* held the component.
ApplyOp ==
  \E r \in vRunning :
    /\ r.st = "taken"
    /\ r.op.kind = "entity" => vNextId < MaxIds
    /\ LET result ==
             IF r.op.kind = "entity" THEN [id |-> vNextId, had |-> FALSE]
             ELSE [id |-> r.op.ent, had |-> r.op.ent \in vComp]
       IN /\ vRunning' = (vRunning \ {r}) \cup {[r EXCEPT !.st = "applied", !.result = result]}
          /\ vApplied' = Append(vApplied, [op |-> r.op.id, kind |-> r.op.kind, result |-> result])
    /\ CASE r.op.kind = "entity" -> WorldEntity /\ UNCHANGED vComp
         [] r.op.kind = "insert" -> vComp' = vComp \cup {r.op.ent} /\ UNCHANGED <<vNextId, vIssued>>
         [] r.op.kind = "remove" -> vComp' = vComp \ {r.op.ent} /\ UNCHANGED <<vNextId, vIssued>>
    /\ UNCHANGED <<vQueue, vPc, vRx, vGot, vSent>>
    /\ ViewFrame

\* Sender::try_send on the caller's channel(1): it fails when the channel holds
\* a message already.
TrySendOk(rx) == Len(rx) < 1

\* `self.tx.try_send(result).unwrap()` in Deferred::run, which ends the
\* operation; a failed try_send ends the task that applies the operations.
SendResult ==
  \E r \in vRunning :
    /\ r.st = "applied"
    /\ IF TrySendOk(vRx[r.op.caller])
       THEN /\ vRx' = [vRx EXCEPT ![r.op.caller] = Append(@, r.result)]
            /\ vRunning' = vRunning \ {r}
       ELSE /\ vRunning' = (vRunning \ {r}) \cup {[r EXCEPT !.st = "panicked"]}
            /\ UNCHANGED vRx
    /\ UNCHANGED <<vQueue, vPc, vGot, vSent, vApplied, vNextId, vIssued, vComp>>
    /\ ViewFrame

\* `rx.recv().await.unwrap()` and the downcast in WorldView::defer: the call
\* returns the result it received.
DeferRecv(t) ==
  /\ vPc[t].at = "recv"
  /\ vRx[t] # <<>>
  /\ vGot' = [vGot EXCEPT ![t] = {Head(vRx[t])}]
  /\ vRx' = [vRx EXCEPT ![t] = Tail(@)]
  /\ vPc' = [vPc EXCEPT ![t].at = "after"]
  /\ UNCHANGED <<vQueue, vRunning, vSent, vApplied, vNextId, vIssued, vComp>>
  /\ ViewFrame

\* The caller's code after the await has run.
DeferDone(t) ==
  /\ vPc[t].at = "after"
  /\ vPc' = [vPc EXCEPT ![t] = [at |-> "idle", op |-> 0]]
  /\ vGot' = [vGot EXCEPT ![t] = {}]
  /\ UNCHANGED <<vQueue, vRunning, vRx, vSent, vApplied, vNextId, vIssued, vComp>>
  /\ ViewFrame

\* World::run has spawned the task that applies the deferred operations; no
\* identifier has been issued.
InitView ==
  /\ vQueue = <<>>
  /\ vRunning = {}
  /\ vPc = [t \in ViewTasks |-> [at |-> "idle", op |-> 0]]
  /\ vRx = [t \in ViewTasks |-> <<>>]
  /\ vGot = [t \in ViewTasks |-> {}]
  /\ vSent = <<>>
  /\ vApplied = <<>>
  /\ vNextId = 0
  /\ vIssued = <<>>
  /\ vComp = {}

NextView ==
  \/ HandleEntity
  \/ \E t \in ViewTasks : Defer(t)
  \/ ApplierRecv
  \/ ApplyOp
  \/ SendResult
  \/ \E t \in ViewTasks : DeferRecv(t)
  \/ \E t \in ViewTasks : DeferDone(t)

-----------------------------------------------------------------------------
(* event.rs: two tasks fire the same event on a multi-threaded runtime *)

\* How often each task fires the event.
MaxRounds == 1

\* The tasks that fire the event, each on a worker thread of its own.
Firers == {1, 2}

NoFire == [pc |-> "idle", round |-> 0, deg |-> [n \in Nodes |-> 0], queue |-> <<>>,
           batch |-> <<>>, log |-> <<>>, ret |-> {}]

\* fire up to the while loop: handlers.read() (shared with the other firing),
\* the in-degrees and the queue of the nodes of in-degree zero.
ConcBegin(t) ==
  /\ cFire[t].pc \in {"idle", "returned"}
  /\ cFire[t].round < MaxRounds
  /\ cFire' = [cFire EXCEPT ![t] =
                 [pc |-> "loop", round |-> cFire[t].round + 1,
                  deg |-> [n \in Nodes |-> IF n <= Len(eNodes) THEN InDegree(n) ELSE 0],
                  queue |-> SelectSeq(NodeIndices, LAMBDA n : InDegree(n) = 0),
                  batch |-> <<>>, log |-> <<>>, ret |-> {}]]
  /\ UNCHANGED cLastFired
  /\ ConcFrame

\* One iteration of the while loop up to the delta_time block: the batch.
ConcBatch(t) ==
  /\ cFire[t].pc = "loop"
  /\ cFire[t].queue # <<>>
  /\ LET st == TakeBatch([deg |-> cFire[t].deg, queue |-> cFire[t].queue, batch |-> <<>>],
                         BatchSize(cFire[t].queue))
     IN cFire' = [cFire EXCEPT ![t].deg = st.deg, ![t].queue = st.queue,
                               ![t].batch = st.batch, ![t].pc = "try_lock"]
  /\ UNCHANGED cLastFired
  /\ ConcFrame

\* Mutex::try_lock: Ok unless the mutex is held.
TryLockOk(mutex) == mutex.holder = 0

\* `self.last_fired.try_lock().unwrap()`: the guard, or a panic that ends the
\* firing (its read guard and its locals are dropped).
ConcTryLock(t) ==
  /\ cFire[t].pc = "try_lock"
  /\ IF TryLockOk(cLastFired)
       THEN /\ cLastFired' = [cLastFired EXCEPT !.holder = t]
            /\ cFire' = [cFire EXCEPT ![t].pc = "locked"]
       ELSE /\ cFire' = [cFire EXCEPT ![t].pc = "panicked", ![t].queue = <<>>,
                                      ![t].batch = <<>>,
                                      ![t].deg = [n \in Nodes |-> 0]]
            /\ UNCHANGED cLastFired
  /\ ConcFrame

\* `last_fired.map(..); last_fired.replace(Instant::now())` and the end of the
\* block, where the guard is dropped.
ConcReplace(t) ==
  /\ cFire[t].pc = "locked"
  /\ cLastFired' = [holder |-> 0, val |-> {"instant"}]
  /\ cFire' = [cFire EXCEPT ![t].pc = "spawn"]
  /\ ConcFrame

\* `for node in batch { tokio::spawn(..) }`: the handlers of the batch are
\* dispatched, and the loop goes round.
ConcSpawn(t) ==
  /\ cFire[t].pc = "spawn"
  /\ cFire' = [cFire EXCEPT ![t].log = @ \o cFire[t].batch, ![t].batch = <<>>,
                            ![t].pc = "loop"]
  /\ UNCHANGED cLastFired
  /\ ConcFrame

\* The queue is empty: fire returns handlers.node_count().
ConcReturn(t) ==
  /\ cFire[t].pc = "loop"
  /\ cFire[t].queue = <<>>
  /\ cFire' = [cFire EXCEPT ![t].pc = "returned", ![t].ret = {Len(eNodes)},
                            ![t].deg = [n \in Nodes |-> 0]]
  /\ UNCHANGED cLastFired
  /\ ConcFrame

\* Nobody fires; DynEventDispatcher::new: last_fired is Mutex::new(None).
InitConc ==
  /\ cFire = [t \in Firers |-> NoFire]
  /\ cLastFired = [holder |-> 0, val |-> {}]

NextConc ==
  \E t \in Firers :
    \/ ConcBegin(t)
    \/ ConcBatch(t)
    \/ ConcTryLock(t)
    \/ ConcReplace(t)
    \/ ConcSpawn(t)
    \/ ConcReturn(t)

-----------------------------------------------------------------------------
(* component.rs: Components::entity_map and Components::component_map *)

\* How many calls are made on the Components.
MaxIndexOps == 3

\* The bundles given to insert_bundle: (T,), (T, U), (U, T) and ().
Bundles == {<<"T">>, <<"T", "U">>, <<"U", "T">>, <<>>}

\* Mutant: the reverse index is left as it is.
ComponentMapInsertNone(map, e, ty) == map

\* `self.component_map.entry(type_id).or_default().insert(entity)`
ComponentMapInsert(map, e, ty) == map \cup {<<e, ty>>}

\* `self.entity_map.entry(entity).or_default().insert(type_id, storage)`: the
\* entity becomes a key, the storage replaces the one there was.
EntityMapInsert(map, e, ty) == map \cup {<<e, ty>>}

\* Components::has::<T>(entity)
IndexHas(e, ty) == e \in iKnown /\ <<e, ty>> \in iEntityMap

\* Components::entities_with::<T>()
IndexEntitiesWith(ty) == {s[1] : s \in {c \in iComponentMap : c[2] = ty}}

Called(op) ==
  /\ iOps < MaxIndexOps
  /\ iOps' = iOps + 1
  /\ iDone' = iDone \cup {op}

\* Components::insert, no handle being out on the old storage: component_map
\* first, then entity_map.
IndexInsert ==
  \E e \in QEntities, ty \in QTypes :
    /\ Called("insert")
    /\ iComponentMap' = ComponentMapInsert(iComponentMap, e, ty)
    /\ iEntityMap' = EntityMapInsert(iEntityMap, e, ty)
    /\ iKnown' = iKnown \cup {e}
    /\ IndexFrame

\* Components::insert_discard: entity_map first, then component_map.
IndexInsertDiscard ==
  \E e \in QEntities, ty \in QTypes :
    /\ Called("insert_discard")
    /\ iEntityMap' = EntityMapInsert(iEntityMap, e, ty)
    /\ iKnown' = iKnown \cup {e}
    /\ iComponentMap' = ComponentMapInsert(iComponentMap, e, ty)
    /\ IndexFrame

\* The loop of insert_bundle over bundle.into_dyn_components().
RECURSIVE BundleInto(_, _, _)
BundleInto(maps, e, bundle) ==
  IF bundle = <<>> THEN maps
  ELSE BundleInto([entity_map |-> EntityMapInsert(maps.entity_map, e, Head(bundle)),
                   component_map |-> ComponentMapInsert(maps.component_map, e, Head(bundle))],
                  e, Tail(bundle))

\* Components::insert_bundle; with the empty bundle nothing is touched.
IndexInsertBundle ==
  \E e \in QEntities, bundle \in Bundles :
    /\ Called("insert_bundle")
    /\ LET maps == BundleInto([entity_map |-> iEntityMap, component_map |-> iComponentMap],
                              e, bundle)
       IN /\ iEntityMap' = maps.entity_map
          /\ iComponentMap' = maps.component_map
    /\ iKnown' = IF bundle = <<>> THEN iKnown ELSE iKnown \cup {e}
    /\ IndexFrame

\* Components::remove, no handle being out on the storage: None if the
\* entity is no key or has no such component, else the storage leaves
\* entity_map and the entity leaves component_map; the entity stays a key.
IndexRemove ==
  \E e \in QEntities, ty \in QTypes :
    /\ Called("remove")
    /\ IF e \notin iKnown \/ <<e, ty>> \notin iEntityMap
         THEN UNCHANGED <<iEntityMap, iComponentMap>>
         ELSE /\ iEntityMap' = iEntityMap \ {<<e, ty>>}
              /\ iComponentMap' = iComponentMap \ {<<e, ty>>}
    /\ UNCHANGED iKnown
    /\ IndexFrame

\* Components::default()
InitIndex ==
  /\ iKnown = {}
  /\ iEntityMap = {}
  /\ iComponentMap = {}
  /\ iOps = 0
  /\ iDone = {}

NextIndex ==
  \/ IndexInsert
  \/ IndexInsertDiscard
  \/ IndexInsertBundle
  \/ IndexRemove

-----------------------------------------------------------------------------
(* handler.rs: EventHandlerMeta::is_compatible on all metas *)

\* The resource types the metas name.
MetaTypes == {"R", "S"}

\* The metas res::<T>() and res_mut::<T>() can build over these types.
Metas == [resources_read : SUBSET MetaTypes, resources_written : SUBSET MetaTypes]

\* self.is_compatible(&other) and other.is_compatible(&self) are called.
CallIsCompatible ==
  /\ pOut = {}
  /\ pOut' = {[ab |-> IsCompatible(pSelf, pOther), ba |-> IsCompatible(pOther, pSelf)]}
  /\ UNCHANGED <<pSelf, pOther>>
  /\ MetaFrame

\* `self + other` replaces self, and the comparison is made anew.
CallAdd ==
  /\ pOut # {}
  /\ pSelf' = MetaAdd(pSelf, pOther)
  /\ pSelf' # pSelf
  /\ pOut' = {}
  /\ UNCHANGED pOther
  /\ MetaFrame

\* Nothing has been compared.
InitMeta ==
  /\ pSelf = DefaultMeta
  /\ pOther = DefaultMeta
  /\ pOut = {}

NextMeta ==
  \/ CallIsCompatible
  \/ CallAdd

\* The parts added last, before anything was done with them.
InitExtra == InitView /\ InitConc /\ InitIndex /\ InitMeta

\* The parts specified on their own, before anything was done with them.
InitOthers == InitQuery /\ InitRegistry /\ InitWindow /\ InitExtra

-----------------------------------------------------------------------------
(* Properties of the loan slot *)

\* The value physically in the slot, as an Option.
SlotValue ==
  CASE lStorage.tag = "Vacant" -> {}
    [] lStorage.tag = "Owned" -> lStorage.val
    [] lStorage.tag = "Loan" -> lStorage.val
    [] lStorage.tag = "LoanMut" -> lCells[lStorage.cell]

\* An exclusive token is out and its value is not back in the slot yet.
ExclNotReturned == lTokens # {} \/ lReturns # {}

SlotUnchanged == UNCHANGED <<lStorage, lCells, lShared, lTokens, lReturns>>

\* C2: loan_mut returns a token only when the slot holds its value and no
\* checkout is outstanding; with shared tokens out, with an exclusive token
\* whose value is not back, and on a vacant slot it returns None and leaves the
\* slot unchanged. While an exclusive token is out the value is absent from the
\* slot, and at most one exclusive token exists.
C2_LoanMutExclusive ==
  /\ [](Cardinality(lTokens) <= 1 /\ (ExclNotReturned => SlotValue = {}))
  /\ [][LoanMutAttempt =>
          /\ lLast'.ok => (SlotValue # {} /\ lShared = 0 /\ ~ExclNotReturned)
          /\ lLast'.ok => (lTokens' = {[inner |-> SlotValue, outer |-> lStorage'.cell]}
                           /\ SlotValue' = {})
          /\ (lShared > 0 \/ ExclNotReturned \/ lStorage.tag = "Vacant")
                => (~lLast'.ok /\ SlotUnchanged)]_vars

\* C2 witness: a loan_mut has returned None while an exclusive token is out.
C2_Witness ==
  lLast.op = "loan_mut" /\ ~lLast.ok /\ lTokens # {} /\ lStorage.tag = "LoanMut"

\* C3: loan succeeds whenever the slot holds its value (owned, or already on
\* shared loan), each success adding one outstanding shared token; it returns
\* None while an exclusive token has not returned the value.
C3_LoanShared ==
  [][LoanAttempt =>
       /\ SlotValue # {} => (lLast'.ok /\ lLast'.val = SlotValue
                              /\ lShared' = lShared + 1 /\ SlotValue' = SlotValue)
       /\ ExclNotReturned => (~lLast'.ok /\ SlotUnchanged)]_vars

\* C3 witness: two shared tokens are out at once, the second obtained by loan
\* on a slot that was already shared.
C3_Witness ==
  lLast.op = "loan" /\ lLast.ok /\ lShared >= 2 /\ lStorage.tag = "Loan"

\* How many places hold the value: the slot, exclusive tokens, return tasks.
ValueCopies ==
  (IF SlotValue # {} THEN 1 ELSE 0) + Cardinality(lTokens) + Cardinality(lReturns)

\* C4: a dropped exclusive token's value, with the writer's mutations, goes back
\* into the slot: the value is held in exactly one place at any time, what the
\* slot and every later checkout hold is what the last writer left, and an
\* await_loan_mut / await_loan that runs once the token is dropped (and, for
\* await_loan_mut, no shared token is out) eventually returns.
C4_ReturnExclusive ==
  /\ [](lStorage.tag # "Vacant" => ValueCopies = 1)
  /\ []((SlotValue # {} => SlotValue = lWritten)
        /\ (\A t \in lReturns : t.inner = lWritten))
  /\ [][(LoanAttempt \/ LoanMutAttempt) /\ lLast'.ok => lLast'.val = lWritten]_vars
  /\ ((lCaller = "await_loan_mut" /\ lStorage.tag # "Vacant" /\ lTokens = {} /\ lShared = 0)
        ~> (lCaller = "idle" /\ lLast.op = "loan_mut" /\ lLast.ok))
  /\ ((lCaller = "await_loan" /\ lStorage.tag # "Vacant" /\ lTokens = {})
        ~> (lCaller = "idle" /\ lLast.op = "loan" /\ lLast.ok))

\* C4 witness: await_loan_mut has already retried once while the dropped
\* token's value is still on its way back.
C4_Witness ==
  /\ lCaller = "await_loan_mut"
  /\ lLast.op = "loan_mut" /\ ~lLast.ok
  /\ lTokens = {} /\ lReturns # {} /\ lShared = 0

\* C5: in every state with no outstanding token and a populated slot,
\* as_owned_ref and as_owned_mut return the value.
C5_OwnedWhenNoToken ==
  (lStorage.tag # "Vacant" /\ lShared = 0 /\ ~ExclNotReturned)
    => AsOwned(lStorage) # {}

-----------------------------------------------------------------------------
(* Properties of the component and resource store *)

\* The handles of a kind that are out on slot k, on any of its storages.
HandlesOn(k, kind) ==
  {<<t, h>> \in Tasks \X UNION {wHandles[t] : t \in Tasks} :
     h \in wHandles[t] /\ h.store[1] = k /\ h.kind = kind}

\* Task t's get / get_mut on slot k returns a handle in this step.
Obtains(t, k) == Obtain(t) /\ wPc[t].key = k

\* C1: on every component slot and every resource slot at most one Mut is out
\* at a time and never together with a Ref; a get_mut (or get) returns its
\* handle only in a state where no conflicting handle is out, so the second of
\* two concurrent get_mut calls completes only after the first Mut is dropped.
C1_SlotExclusive ==
  /\ [](\A k \in Keys :
          /\ Cardinality(HandlesOn(k, "Mut")) <= 1
          /\ HandlesOn(k, "Mut") # {} => HandlesOn(k, "Ref") = {})
  /\ [][\A t \in Tasks, k \in Keys :
          Obtains(t, k) =>
            /\ HandlesOn(k, "Mut") = {}
            /\ wPc[t].op = "get_mut" => HandlesOn(k, "Ref") = {}]_vars

\* C1 witness: one task holds the Mut of a slot while another task's get_mut on
\* the same slot waits for the storage's lock.
C1_Witness ==
  \E t, u \in Tasks, k \in Keys :
    /\ t # u
    /\ \E h \in wHandles[t] : h.kind = "Mut" /\ h.store = <<k, wMap[k]>>
    /\ wPc[u].op = "get_mut" /\ wPc[u].stage = "slot" /\ wPc[u].key = k
    /\ Waiting(wLock[<<k, wMap[k]>>], u)

\* The storage slot k has now.
Current(k) == <<k, wMap[k]>>

\* Some task holds a Ref or Mut on storage st.
Outstanding(st) == \E u \in Tasks : \E h \in wHandles[u] : h.store = st

\* C18: a get / get_mut returns a handle on the storage the last insert on the
\* slot made, whose value is the one last written to it (the inserted value
\* when nothing mutated it since); an insert makes the slot's single storage
\* hold the inserted value, replacing what was there.
C18_GetYieldsInserted ==
  [][\A t \in Tasks :
       /\ \A h \in wHandles'[t] \ wHandles[t] :
            /\ h.store = Current(h.store[1])
            /\ wVal[h.store] # {}
            /\ wVal[h.store] = wWritten[h.store]
       /\ InsertApply(t) =>
            /\ wMap'[wPc[t].key] # 0
            /\ wVal'[<<wPc[t].key, wMap'[wPc[t].key]>>] = wPc[t].val
            /\ wWritten'[<<wPc[t].key, wMap'[wPc[t].key]>>] = wPc[t].val]_vars

\* C18 witness: after an insert of 1 that replaced the slot's first storage, a
\* get (the only other call made) has returned a Ref on the new storage, which
\* holds 1.
C18_Witness ==
  \E t \in Tasks, k \in Keys :
    /\ wCalls = 2
    /\ wMap[k] = 2
    /\ wVal[Current(k)] = {1}
    /\ \E h \in wHandles[t] : h.kind = "Ref" /\ h.store = Current(k)

C36_HandleValuePresent ==
  \A t \in Tasks : \A h \in wHandles[t] : wVal[h.store] # {}

\* A task holds a handle on a storage that an insert or a remove of another
\* task has already taken out of the map and whose value it waits to take.
C36_Witness ==
  \E t \in Tasks, u \in Tasks :
    /\ t # u
    /\ wPc[u].op \in {"insert", "remove"}
    /\ wPc[u].stage = "old"
    /\ \E h \in wHandles[t] :
         /\ h.store = <<wPc[u].key, wPc[u].gen>>
         /\ wMap[wPc[u].key] # wPc[u].gen

\* C20: insert on an occupied slot and remove return Some(old value) only in a
\* step in which no Ref or Mut on the old storage is out, and the value is the
\* one last written to that storage; they return no other way; insert on an
\* empty slot returns None in the step that finds it empty.
C20_ReturnsOldWhenFree ==
  [][\A t \in Tasks :
       LET pc == wPc[t]
           st == <<pc.key, pc.gen>> IN
         /\ TakeOld(t) =>
              /\ ~Outstanding(st)
              /\ wPc'[t].val # {}
              /\ wPc'[t].val = wWritten[st]
         /\ (pc.op \in {"insert", "remove"} /\ wPc'[t].op = "idle") =>
              IF pc.stage = "old" THEN TakeOld(t) ELSE ~Has(pc.key) /\ wPc'[t] = Idle
         /\ (InsertApply(t) /\ ~Has(pc.key)) => wPc'[t] = Idle
         /\ ((InsertApply(t) \/ RemoveApply(t)) /\ Has(pc.key)) =>
              /\ wPc'[t].stage = "old"
              /\ wPc'[t].gen = wMap[pc.key]]_vars

\* C20 witness: a task holds the 1 that an insert or remove returned to it (the
\* slots start out holding 0) and another task holds a handle, which the call
\* did not wait for since it is on another storage.
C20_Witness ==
  \E t, u \in Tasks :
    /\ t # u
    /\ wPc[t].op = "idle" /\ wPc[t].val = {1}
    /\ wHandles[u] # {}

\* Task t's call is pending.
Pending(t) == wPc[t].op # "idle"

\* The lock task t's pending call is waiting for: the world's, the slot's
\* storage's, or the replaced storage's.
AwaitsWorld(t) == wPc[t].stage = "world" /\ ~Granted(wWorld, t, WorldModeOf(wPc[t].op))

AwaitsCheckout(t) ==
  /\ wPc[t].stage = "slot"
  /\ ~Granted(wLock[<<wPc[t].key, wPc[t].gen>>], t, LockModeOf(wPc[t].op))

AwaitsOld(t) ==
  /\ wPc[t].stage = "old"
  /\ ~Granted(wLock[<<wPc[t].key, wPc[t].gen>>], t, "w")

Blocked(t) == AwaitsWorld(t) \/ AwaitsCheckout(t) \/ AwaitsOld(t)

\* No pending call can go on and no task is free to drop a handle: the pending
\* calls never complete.
Deadlocked ==
  /\ \E t \in Tasks : Pending(t)
  /\ \A t \in Tasks : IF Pending(t) THEN Blocked(t) ELSE wHandles[t] = {}

\* Task t awaits a checkout of a storage on which u holds a handle.
AwaitsCheckoutHeldBy(t, u) ==
  /\ AwaitsCheckout(t)
  /\ \E h \in wHandles[u] : h.store = <<wPc[t].key, wPc[t].gen>>

\* C16 as stated: the store deadlocks only when a task awaits a checkout that
\* conflicts with one it holds itself, or when two tasks each await a checkout
\* the other holds.
C16_OnlyListedDeadlocks ==
  Deadlocked =>
    \/ \E t \in Tasks : AwaitsCheckoutHeldBy(t, t)
    \/ \E t, u \in Tasks : t # u /\ AwaitsCheckoutHeldBy(t, u) /\ AwaitsCheckoutHeldBy(u, t)

\* C17 as stated: a call on one slot is never kept waiting for the world's
\* lock by tasks that hold it only because they are blocked waiting for a
\* checkout of another slot.
C17_NoWorldLock ==
  ~\E u \in Tasks :
     /\ AwaitsWorld(u)
     /\ wWorld.queue # <<>> /\ Head(wWorld.queue).task = u
     /\ wWorld.writer = 0
     /\ wWorld.readers # {}
     /\ \A t \in wWorld.readers : AwaitsCheckout(t) /\ wPc[t].key # wPc[u].key

-----------------------------------------------------------------------------
(* Properties of the handler graph and of fire *)

GraphNodes == 1..Len(eNodes)

\* The graph has an edge a -> b.
Edge(a, b) == \E i \in 1..Len(eEdges) : eEdges[i] = <<a, b>>

\* There is a path of at least one and at most k edges from a to b.
RECURSIVE PathWithin(_, _, _)
PathWithin(a, b, k) ==
  /\ k > 0
  /\ \/ Edge(a, b)
     \/ \E c \in GraphNodes : Edge(a, c) /\ PathWithin(c, b, k - 1)

Path(a, b) == PathWithin(a, b, Len(eNodes))

\* The largest element of a non-empty set of numbers.
Max(S) == CHOOSE x \in S : \A y \in S : y <= x

\* The number of edges of the longest chain of predecessors that ends in n
\* (chains of at most k edges).
RECURSIVE LongestChain(_, _)
LongestChain(n, k) ==
  LET preds == {p \in GraphNodes : Edge(p, n)}
  IN IF k = 0 \/ preds = {} THEN 0
     ELSE 1 + Max({LongestChain(p, k - 1) : p \in preds})

Depth(n) == LongestChain(n, Len(eNodes))

\* This fire has spawned node n's handler.
Dispatched(n) == \E i \in 1..Len(eLog) : eLog[i] = n

\* Where in this fire's dispatch order node n's handler was first spawned.
LogPos(n) == CHOOSE i \in 1..Len(eLog) : eLog[i] = n /\ \A j \in 1..(i - 1) : eLog[j] # n

\* The task this fire spawned for node n.
TaskOf(n) == eTasks[<<eFireNo, n>>]

\* C6: while an event is being fired, in either mode, for every edge a -> b of
\* its handler graph b's handler is spawned only after a's has been, and in a
\* later batch.
C6_EdgeOrder ==
  FireInProgress =>
    \A i \in 1..Len(eEdges) :
      LET a == eEdges[i][1]
          b == eEdges[i][2]
      IN Dispatched(b) =>
           /\ Dispatched(a)
           /\ LogPos(a) < LogPos(b)
           /\ TaskOf(a).batch < TaskOf(b).batch

\* C6 witness: a fire-and-forget fire has spawned both ends of the edges
\* a -> b, a -> c and b -> c.
C6_Witness ==
  /\ FireInProgress
  /\ ~eAwaitAll
  /\ \E a, b, c \in GraphNodes :
       /\ a # b /\ b # c /\ a # c
       /\ Edge(a, b) /\ Edge(a, c) /\ Edge(b, c)
       /\ Dispatched(a) /\ Dispatched(b) /\ Dispatched(c)

\* C7: the handlers are spawned batch by batch, in increasing batch number; and
\* in await-all mode, whenever this fire has spawned a handler of a later
\* batch, every handler of every earlier batch has already run to completion.
C7_BatchOrder ==
  /\ \A i, j \in 1..Len(eLog) :
       i < j => TaskOf(eLog[i]).batch <= TaskOf(eLog[j]).batch
  /\ eAwaitAll =>
       \A k1, k2 \in DOMAIN eTasks :
         eTasks[k1].batch < eTasks[k2].batch => eTasks[k1].st = "done"

\* C7 witness: in await-all mode a handler of batch 2 is running, and the two
\* handlers of batch 1 are done.
C7_Witness ==
  /\ eAwaitAll
  /\ \E k1, k2, k3 \in DOMAIN eTasks :
       /\ k1 # k2
       /\ eTasks[k1].batch = 1 /\ eTasks[k1].st = "done"
       /\ eTasks[k2].batch = 1 /\ eTasks[k2].st = "done"
       /\ eTasks[k3].batch = 2 /\ eTasks[k3].st = "running"

\* Every handler of the graph can be reached by the dispatch: none is on a
\* cycle or behind one.
AllDispatchable == \A n \in GraphNodes : \A m \in GraphNodes : ~(Path(m, m) /\ (m = n \/ Path(m, n)))

\* C8: a fire in await-all mode returns only when every handler task it spawned
\* has completed, and it has spawned one for every handler that the dispatch
\* can reach; after the return all of them stay completed.
C8_AwaitAllReturn ==
  /\ []((eFirePc = "returned" /\ eAwaitAll) =>
          \A key \in DOMAIN eTasks : eTasks[key].st = "done")
  /\ [][(ReturnFire /\ eAwaitAll) =>
          /\ \A key \in DOMAIN eTasks : eTasks[key].st = "done"
          /\ AllDispatchable => \A n \in GraphNodes : <<eFireNo, n>> \in DOMAIN eTasks]_vars

\* C8 witness: an await-all fire has returned after two batches of handlers.
C8_Witness ==
  /\ eFirePc = "returned"
  /\ eAwaitAll
  /\ eRet = {Len(eNodes)}
  /\ \E k1, k2 \in DOMAIN eTasks : eTasks[k1].batch = 1 /\ eTasks[k2].batch = 2

\* C9 as stated: any two handlers this fire has spawned that have no ordering
\* path between them are in the same batch.
C9_NoPathSameBatch ==
  FireInProgress =>
    \A a, b \in GraphNodes :
      (Dispatched(a) /\ Dispatched(b) /\ ~Path(a, b) /\ ~Path(b, a))
        => TaskOf(a).batch = TaskOf(b).batch

\* C9 amended: a handler's batch is its depth (the longest chain of
\* predecessors) plus one, so handlers share a batch exactly when their depths
\* are equal, whether or not a path joins them to others; and in await-all mode
\* only handlers of the same batch ever run at the same time.
C9_BatchByDepth ==
  /\ FireInProgress =>
       \A n \in GraphNodes : Dispatched(n) => TaskOf(n).batch = Depth(n) + 1
  /\ eAwaitAll =>
       \A k1, k2 \in DOMAIN eTasks :
         (eTasks[k1].st = "running" /\ eTasks[k2].st = "running")
           => eTasks[k1].batch = eTasks[k2].batch

\* C9 witness: with a -> b and an isolated c, in await-all mode, b runs in
\* batch 2 when c, of batch 1, has already completed.
C9_Witness ==
  /\ FireInProgress
  /\ eAwaitAll
  /\ \E a, b, c \in GraphNodes :
       /\ a # b /\ b # c /\ a # c
       /\ Edge(a, b)
       /\ \A n \in {a, b} : ~Path(c, n) /\ ~Path(n, c)
       /\ Dispatched(b) /\ Dispatched(c)
       /\ TaskOf(c).batch = 1 /\ TaskOf(c).st = "done"
       /\ TaskOf(b).batch = 2 /\ TaskOf(b).st = "running"

\* The edge i was added by an `after` option: it runs from an older node to the
\* node then being registered.
AfterEdge(i) == eEdges[i][1] < eEdges[i][2]

\* C11 as stated: when handler x has been registered after y and y after x, a
\* registration has failed; the graph never holds both orderings unless a
\* registration panicked.
C11_MutualAfterRejected ==
  (\E i, j \in 1..Len(eEdges) :
     /\ AfterEdge(i) /\ AfterEdge(j)
     /\ eNodes[eEdges[i][1]] # eNodes[eEdges[i][2]]
     /\ eNodes[eEdges[j][1]] = eNodes[eEdges[i][2]]
     /\ eNodes[eEdges[j][2]] = eNodes[eEdges[i][1]])
    => eRegPanic

\* C12 as stated: a handler function whose parameter tuple conflicts with
\* itself is never a node of the graph (its registration fails).
C12_NoSelfConflictingNode ==
  \A n \in GraphNodes : TupleMeta(ParamsOf[eNodes[n]]).ok

\* C25 as stated: the metadata stored in a graph node by the registration of
\* a handler holds the read and write resource sets derived from the handler's
\* parameter list (Res<T> read, ResMut<T> written), for every handler whose
\* parameters are compatible with one another.
C25_NodeMetaFromParams ==
  \A n \in GraphNodes :
    LET derived == TupleMeta(ParamsOf[eNodes[n]])
    IN derived.ok => HandlerConfigNew(eNodes[n]).meta = derived.meta

\* C26 as stated: every handler dispatched in the first firing of the event,
\* whatever its batch, is given a null delta_time, every handler dispatched in
\* a later firing a non-null one, and the handlers of one firing are all
\* given the same delta_time.
C26_DeltaPerFiring ==
  \A key \in DOMAIN eTasks :
    /\ key[1] = 1 => eTasks[key].delta_time = {}
    /\ key[1] > 1 => eTasks[key].delta_time # {}
    /\ \A other \in DOMAIN eTasks :
         other[1] = key[1] => eTasks[other].delta_time = eTasks[key].delta_time

\* C14 as stated: when a fire has returned, every handler that was registered
\* when it began (none has been registered since) has been dispatched exactly
\* once in it.
C14_EveryHandlerOncePerFiring ==
  (eFirePc = "returned" /\ eRet = {Len(eNodes)}) =>
    \A n \in GraphNodes : Cardinality({i \in 1..Len(eLog) : eLog[i] = n}) = 1

\* C10 as stated: whatever has been registered, the handler graph has no cycle
\* (no handler has a path to itself).
C10_GraphAcyclic == \A n \in GraphNodes : ~Path(n, n)

-----------------------------------------------------------------------------
(* Properties of the handler tasks *)

\* The handler function of node n needs no resource, or its resource exists.
Runnable(n) ==
  \/ ParamOf(n).kind \in {"WorldHandle", "Local"}
  \/ Has([ResKey EXCEPT !.ty = ParamOf(n).res])

TasksEnded == \A key \in DOMAIN eTasks : eTasks[key].st # "running"

\* fire has returned and the handler tasks it spawned have ended (at once when
\* it was called with await_all_handlers).
FireComplete == eFirePc = "returned" /\ (eAwaitAll \/ TasksEnded)

\* When nothing can happen any more every fire has returned and every handler
\* task has come to its end.
RunsToEnd ==
  (~ENABLED NextRun) =>
    /\ eFireNo = MaxTicks
    /\ eFirePc = "returned"
    /\ \A n \in GraphNodes : TaskKey(n) \in DOMAIN eTasks /\ eTasks[TaskKey(n)].st = "done"

\* C13: while the resource does not exist no handler task and no fire panics,
\* the handlers that need it are not invoked and hold nothing, and each fire
\* returns the node count with every handler dispatched, the successors of the
\* skipped ones included; the handlers that need no resource are invoked in
\* each fire; and the run never gets stuck.
C13_SkippedWithoutError ==
  ~Has(ResKey) =>
    /\ eFirePc # "panicked"
    /\ \A key \in DOMAIN eTasks : eTasks[key].st # "panicked"
    /\ \A n \in GraphNodes : ~Runnable(n) => hInvoked[n] = 0 /\ wHandles[n] = {}
    /\ eFirePc = "returned" =>
         /\ eRet = {Len(eNodes)}
         /\ \A n \in GraphNodes : TaskKey(n) \in DOMAIN eTasks
    /\ FireComplete =>
         \A n \in GraphNodes :
           /\ eTasks[TaskKey(n)].st = "done"
           /\ Runnable(n) => hInvoked[n] = eFireNo
    /\ RunsToEnd

\* C13 witness: with no resource, an await-all fire of A, H and B (B after A)
\* has returned: A and its successor B were dispatched and skipped, H of A's
\* batch was invoked.
C13_Witness ==
  /\ ~Has(ResKey)
  /\ eNodes = <<"A", "H", "B">>
  /\ eFirePc = "returned" /\ eAwaitAll
  /\ hInvoked[1] = 0 /\ hInvoked[3] = 0
  /\ hInvoked[2] = eFireNo
  /\ eTasks[TaskKey(1)].batch = eTasks[TaskKey(2)].batch
  /\ eTasks[TaskKey(3)].st = "done"

\* On the graphs of RunGraphs, which have no cycle: a handler is never invoked
\* more often than the event was fired, and when a fire is complete every
\* handler whose precondition holds has been invoked once per fire; the counter
\* H increments then equals the number of fires.
InvokedOncePerFiring ==
  /\ \A n \in GraphNodes : hInvoked[n] <= eFireNo
  /\ FireComplete =>
       \A n \in GraphNodes :
         /\ Runnable(n) => hInvoked[n] = eFireNo
         /\ (ParamOf(n).kind = "WorldHandle" /\ Has(CountKey)) =>
              wVal[Current(CountKey)] = {eFireNo}

\* The third await-all fire of the event whose only handler is H has returned
\* and the counter is 3.
ThreeTicksCounted ==
  /\ eNodes = <<"H">>
  /\ eFireNo = 3
  /\ eFirePc = "returned" /\ eAwaitAll
  /\ Has(CountKey)
  /\ wVal[Current(CountKey)] = {3}

\* Two handlers that take ResMut of the same resource, with no path between
\* them.
IndependentWriters(n, m) ==
  /\ n # m
  /\ ParamOf(n) = ParamOf(m) /\ ParamOf(n).kind = "ResMut"
  /\ ~Path(n, m) /\ ~Path(m, n)

\* C34: whenever the resource is removed, no handler invocation and no firing
\* fails: a handler with a Res / ResMut parameter is invoked with the resource
\* or skipped.
C34_RemovalNeverFails ==
  /\ eFirePc # "panicked"
  /\ \A n \in GraphNodes :
       TaskKey(n) \in DOMAIN eTasks => eTasks[TaskKey(n)].st # "panicked"

\* C35: when two tasks fire the same event concurrently, neither firing fails
\* while it records the last-fired time, and a firing that has returned has
\* dispatched every registered handler exactly once.
C35_ConcurrentFirings ==
  \A t \in Firers :
    /\ cFire[t].pc # "panicked"
    /\ cFire[t].pc = "returned" =>
         \A n \in GraphNodes :
           Cardinality({i \in DOMAIN cFire[t].log : cFire[t].log[i] = n}) = 1

\* C37: after any sequence of insert, insert_discard, insert_bundle and
\* remove, an entity is in entities_with::<T>() exactly if has::<T>() is true
\* of it.
C37_IndexAgrees ==
  \A e \in QEntities, ty \in QTypes : e \in IndexEntitiesWith(ty) <=> IndexHas(e, ty)

\* A bundle and a discarding insert were made and a component was removed:
\* one entity holds a component and another is a key that holds none.
C37_Witness ==
  /\ {"insert_discard", "insert_bundle", "remove"} \subseteq iDone
  /\ \E e \in QEntities, ty \in QTypes : IndexHas(e, ty)
  /\ \E e \in iKnown : \A ty \in QTypes : ~IndexHas(e, ty)

\* C39: is_compatible(a, b) is false exactly when a writes what b reads or
\* writes, or b writes what a reads; it gives the same for (b, a); two metas
\* that write nothing are compatible.
C39_IsCompatible ==
  \A out \in pOut :
    /\ out.ab = ~(\/ pSelf.resources_written \cap
                       (pOther.resources_read \cup pOther.resources_written) # {}
                  \/ pOther.resources_written \cap pSelf.resources_read # {})
    /\ out.ab = out.ba
    /\ (pSelf.resources_written = {} /\ pOther.resources_written = {}) => out.ab

\* Two metas that write the same resource and read nothing have been
\* compared.
C39_Witness ==
  /\ pOut # {}
  /\ pSelf.resources_read = {} /\ pOther.resources_read = {}
  /\ pSelf.resources_written \cap pOther.resources_written # {}

\* C40: a fire that returns, returns the number of handlers registered for the
\* event, the handlers it skipped included, whether it awaited the handlers or
\* not.
C40_FireReturnsNodeCount ==
  /\ eFirePc = "returned" => eRet = {Len(eNodes)}
  /\ eRet # {} => eRet = {Len(eNodes)}

\* A fire that does not await the handlers has returned 3 for A, H and B, of
\* which A and B were skipped for want of the resource.
C40_Witness ==
  /\ eFirePc = "returned" /\ ~eAwaitAll
  /\ eNodes = <<"A", "H", "B">>
  /\ ~Has(ResKey)
  /\ eRet = {3}
  /\ \A n \in GraphNodes : eTasks[TaskKey(n)].st = "done"
  /\ hInvoked[1] = 0 /\ hInvoked[3] = 0 /\ hInvoked[2] = eFireNo

\* C15: two independent writers of R are registered without a panic and
\* spawned in the same batch; they never run their functions (hold their
\* ResMut) at the same time; when R exists both have been invoked in every
\* completed fire; and the run never gets stuck.
C15_IndependentWritersRun ==
  \A n, m \in GraphNodes :
    IndependentWriters(n, m) =>
      /\ ~HandlerConfigNew(eNodes[n]).panics /\ ~HandlerConfigNew(eNodes[m]).panics
      /\ (TaskKey(n) \in DOMAIN eTasks /\ TaskKey(m) \in DOMAIN eTasks) =>
           eTasks[TaskKey(n)].batch = eTasks[TaskKey(m)].batch
      /\ ~(hPc[n] = "body" /\ hPc[m] = "body")
      /\ Cardinality(HandlesOn(ParamKey(n), "Mut")) <= 1
      /\ (FireComplete /\ Runnable(n)) => hInvoked[n] = eFireNo /\ hInvoked[m] = eFireNo
      /\ RunsToEnd

\* C15 witness: A runs its function holding the ResMut while B, spawned in the
\* same batch, waits for the resource's lock.
C15_Witness ==
  /\ eNodes = <<"A", "B">>
  /\ hPc[1] = "body" /\ hPc[2] = "fetch"
  /\ Has(ResKey)
  /\ \E h \in wHandles[1] : h.kind = "Mut" /\ h.store = Current(ResKey)
  /\ Waiting(wLock[Current(ResKey)], 2)
  /\ eTasks[TaskKey(1)].batch = eTasks[TaskKey(2)].batch

\* The handler function of node n takes a Local<usize>.
HasLocal(n) == ParamOf(n).kind = "Local"

\* Node n has been dispatched: a task was spawned for it in the fire in
\* progress, or its function was invoked in an earlier one.
EverDispatched(n) == Dispatched(n) \/ hInvoked[n] > 0

C28_LocalPrivatePersistent ==
  \A n \in GraphNodes :
    (HasLocal(n) /\ hState[n] # {}) =>
      /\ \A c \in hState[n] :
           hCells[c] = hInvoked[n] - (IF hPc[n] = "body" THEN 1 ELSE 0)
      /\ \A m \in GraphNodes \ {n} : HasLocal(m) => hState[m] \cap hState[n] = {}

\* Reached: L and M have each a Local<usize>; L has returned from its second
\* invocation and M has not begun its second: L's local is 2 and M's is 1.
C28_Witness ==
  /\ eNodes = <<"L", "M">>
  /\ hInvoked = [n \in Nodes |-> IF n = 1 THEN 2 ELSE IF n = 2 THEN 1 ELSE 0]
  /\ hPc[1] = "none" /\ hPc[2] = "none"
  /\ hState[1] = {1} /\ hState[2] = {2}
  /\ hCells[1] = 2 /\ hCells[2] = 1

-----------------------------------------------------------------------------
(* Properties of the queries *)

QueryIds == 1..Len(qQueries)

\* The component types a query asks for.
QueriedTypes(kinds) == {kinds[i].ty : i \in {j \in 1..Len(kinds) : kinds[j].kind # "Entity"}}

\* The entity held every queried component when query n was constructed.
HeldAtConstruction(n, e) ==
  \A ty \in QueriedTypes(qQueries[n].kinds) : <<e, ty>> \in qSnap[n].entity_map

\* The entity holds every queried component of query n now.
HoldsNow(n, e) ==
  \A ty \in QueriedTypes(qQueries[n].kinds) : ComponentsHas(e, ty)

\* The entities that occur in the tuples the iteration has yielded.
Yielded == {qIter.out[j][i] : j \in 1..Len(qIter.out), i \in 1..Len(qQueries[qIter.q].kinds)}

\* C21: an entity that lacked a queried component when the query was
\* constructed is not in the query's matching set, whatever it has been given
\* since: iter() of that query does not yield it and get(entity) on that query
\* returns None; a query constructed when the entity holds every queried
\* component has it in its matching set.
C21_MembershipFixed ==
  \A n \in QueryIds, e \in QEntities :
    /\ ~HeldAtConstruction(n, e) =>
         /\ e \notin qQueries[n].entities_matching
         /\ qIter.q = n => e \notin Yielded
         /\ (qGot.q = n /\ qGot.e = e) => qGot.res = "none"
    /\ (HeldAtConstruction(n, e) /\ e \in qSnap[n].known) =>
         e \in qQueries[n].entities_matching

\* C21 witness: entity 2 was given U after Query<(&T, &mut U)> was constructed;
\* the iteration of that query has ended having yielded entity 1 only, get(2)
\* on it has returned None, and a second query constructed since has entity 2.
C21_Witness ==
  /\ Len(qQueries) = 2
  /\ qQueries[1].kinds = <<ReadKind("T"), WriteKind("U")>>
  /\ qQueries[2].kinds = qQueries[1].kinds
  /\ ~HeldAtConstruction(1, 2) /\ HoldsNow(1, 2)
  /\ qIter.q = 1 /\ qIter.st = "ended" /\ qIter.out = <<<<1, 1>>>>
  /\ qGot = [q |-> 1, e |-> 2, res |-> "none"]
  /\ 2 \in qQueries[2].entities_matching

\* The store has not been modified since query n was constructed.
Unmodified(n) == qSnap[n].mods = qMods

\* The tuple whose every item is bound to entity e.
TupleOf(n, e) == [i \in 1..Len(qQueries[n].kinds) |-> e]

\* C22 as stated: when the iteration of a query has ended and the store was not
\* modified since the query was constructed, exactly one tuple has been
\* yielded for each entity of the matching set, its items all bound to that
\* entity.
C22_OneTuplePerEntity ==
  (qIter.st = "ended" /\ Unmodified(qIter.q)) =>
    /\ Len(qIter.out) = Cardinality(qQueries[qIter.q].entities_matching)
    /\ \A e \in qQueries[qIter.q].entities_matching :
         \E j \in 1..Len(qIter.out) : qIter.out[j] = TupleOf(qIter.q, e)

\* C33: every tuple an iteration yields consists of values of one and the same
\* entity.
C33_TupleOneEntity ==
  \A j \in DOMAIN qIter.out :
    \A a \in DOMAIN qIter.out[j] : \A b \in DOMAIN qIter.out[j] :
      qIter.out[j][a] = qIter.out[j][b]

\* C38: an iteration does not fail when an entity of the matching set has lost
\* a queried component since the query was constructed; it ends having left
\* that entity out.
C38_IterToleratesRemoval ==
  /\ qIter.st # "panicked"
  /\ qIter.st = "ended" =>
       \A j \in DOMAIN qIter.out : \A a \in DOMAIN qIter.out[j] :
         LET kind == qQueries[qIter.q].kinds[a]
         IN kind.kind # "Entity" => ComponentsHas(qIter.out[j][a], kind.ty)

\* The orders in which the kinds of a tuple can be written.
Orders(kinds) ==
  {[i \in 1..Len(kinds) |-> kinds[p[i]]] : p \in Permutations(1..Len(kinds))}

-----------------------------------------------------------------------------
(* Properties of the event registry *)

\* The dispatcher of the entry of an event type.
EntryOf(ty) == CHOOSE d \in rEntries[ty] : TRUE

\* The handler functions registered for an event type, in order.
RegisteredFns(ty) == [i \in DOMAIN rRegistered[ty] |-> rRegistered[ty][i].fn]

\* C24: add_event::<T>() is idempotent.  Every handle of one event type,
\* whichever call returned it, refers to the one dispatcher of the type's
\* entry; that dispatcher holds every handler registered for the type through
\* any handle, in the order of registration, and the instant of the type's
\* last firing, so no add_event has discarded them; and a firing through a
\* handle invokes the handlers registered through all of them.
C24_AddEventIdempotent ==
  /\ \A h \in DOMAIN rHandles :
       /\ rEntries[rHandles[h].ty] = {rHandles[h].event}
       /\ rDispatchers[rHandles[h].event].type_id = rHandles[h].ty
  /\ \A ty \in EventTypes :
       IF rEntries[ty] = {}
       THEN rRegistered[ty] = <<>> /\ rFiredAt[ty] = {}
       ELSE /\ rDispatchers[EntryOf(ty)].handlers = RegisteredFns(ty)
            /\ rDispatchers[EntryOf(ty)].last_fired = rFiredAt[ty]
  /\ rLast.op = "fire" => rLast.invoked = RegisteredFns(rLast.ty)

\* Reached: f was registered through the first handle of E1 when it was the
\* only one; add_event was called again, and the event, fired once already,
\* is fired through the handle that call returned: f is invoked.
C24_Witness ==
  /\ Len(rHandles) >= 2
  /\ rHandles[1].ty = "E1" /\ rHandles[2].ty = "E1"
  /\ rRegistered["E1"] = <<[fn |-> "f", via |-> 1, handles |-> 1]>>
  /\ rLast = [op |-> "fire", ty |-> "E1", handle |-> 2, invoked |-> <<"f">>]
  /\ rClock = 2
  /\ rDispatchers[rHandles[2].event].last_fired = {2}

-----------------------------------------------------------------------------
(* Properties of run_window *)

\* The tasks the startup firing spawned, one for each handler, have all run
\* to their end.
StartupHandlersCompleted ==
  /\ eFireNo = 1
  /\ \A n \in GraphNodes :
       /\ <<1, n>> \in DOMAIN eTasks
       /\ eTasks[<<1, n>>].st = "done"

C30_TickCounter ==
  /\ \A i \in 2..Len(aLog) : aLog[i] = WorldTick(i - 1)
  /\ Len(aLog) = aCalls
  /\ aPc \in {"tick_loop", "tick_fire"} => aTick = aCalls - 1
  /\ (aPc = "tick_loop" /\ aTick >= 1) => FireEventReturned
  /\ eFireNo \in {aCalls - 1, aCalls} \/ aCalls = 0
  /\ FireInProgress => eFireNo = aCalls

\* Reached: the ticks 1 and 2 have been fired, the fire of tick 2 has returned
\* and the loop is about to fire tick 3.
C30_Witness ==
  /\ aPc = "tick_loop"
  /\ aLog = <<WorldStartup, WorldTick(1), WorldTick(2)>>
  /\ aTick = 2
  /\ eFireNo = 3
  /\ eFirePc = "returned"

-----------------------------------------------------------------------------
(* Specifications *)

-----------------------------------------------------------------------------
(* Properties of the deferred operations and of the identifiers *)

\* The place of an operation in the order of application, 0 if not applied.
AppliedAt(id) ==
  IF \E i \in DOMAIN vApplied : vApplied[i].op = id
  THEN CHOOSE i \in DOMAIN vApplied : vApplied[i].op = id
  ELSE 0

\* C31: a deferred operation is applied with exclusive access to the world
\* (the applying task has at most one operation in hand), the operations are
\* applied in the order they were submitted, and a caller is past its await
\* only when its own operation has been applied, holding that operation's
\* result.
C31_DeferredInOrder ==
  /\ Cardinality(vRunning) <= 1
  /\ \A i \in DOMAIN vApplied : vApplied[i].op = vSent[i]
  /\ \A t \in ViewTasks :
       vPc[t].at = "after" =>
         /\ AppliedAt(vPc[t].op) # 0
         /\ vGot[t] = {vApplied[AppliedAt(vPc[t].op)].result}

\* Two tasks have operations in flight, the second one submitted has been
\* applied and its caller is past the await.
C31_Witness ==
  \E t \in ViewTasks, u \in ViewTasks :
    /\ t # u
    /\ vPc[t].at = "after"
    /\ vPc[t].op = 2
    /\ vPc[u].op = 1
    /\ vApplied[2].kind = "insert"

\* C32: the identifiers issued are strictly increasing in the order of issue,
\* hence pairwise distinct and never issued again, whoever allocates and
\* whatever was removed in between.
C32_IdsIncreasing ==
  \A i \in DOMAIN vIssued : \A j \in DOMAIN vIssued : i < j => vIssued[i] < vIssued[j]

\* An entity was given a component and lost it again, and an identifier was
\* issued after that.
C32_Witness ==
  /\ Len(vIssued) >= 2
  /\ vComp = {}
  /\ \E i \in DOMAIN vApplied : \E j \in DOMAIN vApplied :
       /\ i < j
       /\ vApplied[i].kind = "remove"
       /\ vApplied[i].result.had
       /\ vApplied[j].kind = "entity"

\* tokio runs every spawned task, and yield_now reschedules the caller.
FairLoan ==
  /\ WF_vars(ReturnTask)
  /\ WF_vars(AwaitLoanStep)
  /\ WF_vars(AwaitLoanMutStep)

\* The loan slot alone: the store is empty and idle.
InitSpecLoan ==
  InitLoan /\ InitWorld /\ (\A k \in Keys : wMap[k] = 0) /\ InitEvent /\ InitHandlers
    /\ InitOthers

SpecLoan == InitSpecLoan /\ [][NextLoan]_vars /\ FairLoan


\* The store alone: the loan slot stays vacant.
InitSpecWorld ==
  InitLoan /\ lStorage = Vacant /\ InitWorld /\ InitEvent /\ InitHandlers /\ InitOthers

SpecWorld == InitSpecWorld /\ [][NextWorld]_vars

\* The event graph and its dispatch alone.
InitSpecFire ==
  /\ InitLoan /\ lStorage = Vacant
  /\ InitWorld /\ (\A k \in Keys : wMap[k] = 0)
  /\ InitEvent
  /\ InitHandlers
  /\ InitOthers

SpecFire == InitSpecFire /\ [][NextFire]_vars

\* The registrations alone, a handler function possibly registered again.
NextRegister ==
  \/ InsertNode
  \/ ReinsertNode
  \/ InsertOption

InitSpecRegister ==
  /\ InitLoan /\ lStorage = Vacant
  /\ InitWorld /\ (\A k \in Keys : wMap[k] = 0)
  /\ InitEvent
  /\ InitHandlers
  /\ InitOthers

SpecRegister == InitSpecRegister /\ [][NextRegister]_vars

\* The handlers of a registered graph run against the store: the event is fired
\* MaxTicks times, each time after the handler tasks of the fire before have
\* ended.
InitSpecRun ==
  /\ InitLoan /\ lStorage = Vacant
  /\ InitWorld
  /\ \E g \in RunGraphs :
       /\ eNodes = g.nodes
       /\ eEdges = g.edges
       /\ eCache = [ty \in HandlerKinds |-> IndexOf(g.nodes, ty)]
  /\ InitDispatcher
  /\ InitHandlers
  /\ InitOthers

SpecRun == InitSpecRun /\ [][NextRun]_vars

\* The same, with a task that removes the resource the handlers declare.
InitSpecRemove ==
  /\ InitLoan /\ lStorage = Vacant
  /\ InitWorld
  /\ \E g \in RunGraphs :
       /\ eNodes = g.nodes
       /\ eEdges = g.edges
       /\ eCache = [ty \in HandlerKinds |-> IndexOf(g.nodes, ty)]
  /\ InitDispatcher
  /\ InitHandlers
  /\ InitOthers

SpecRemove == InitSpecRemove /\ [][NextRunRemove]_vars

\* Two tasks fire the event of a registered graph concurrently.
InitSpecConc ==
  /\ InitLoan /\ lStorage = Vacant
  /\ InitWorld /\ (\A k \in Keys : wMap[k] = 0)
  /\ \E g \in WindowGraphs :
       /\ eNodes = g.nodes
       /\ eEdges = g.edges
       /\ eCache = [ty \in HandlerKinds |-> IndexOf(g.nodes, ty)]
  /\ InitDispatcher
  /\ InitHandlers
  /\ InitOthers

SpecConc == InitSpecConc /\ [][NextConc]_vars

\* The maps of a Components alone.
InitSpecIndex ==
  /\ InitLoan /\ lStorage = Vacant
  /\ InitWorld /\ (\A k \in Keys : wMap[k] = 0)
  /\ InitEvent
  /\ InitHandlers
  /\ InitOthers

SpecIndex == InitSpecIndex /\ [][NextIndex]_vars

\* is_compatible on every pair of metas.
InitSpecMeta ==
  /\ InitLoan /\ lStorage = Vacant
  /\ InitWorld /\ (\A k \in Keys : wMap[k] = 0)
  /\ InitEvent
  /\ InitHandlers
  /\ InitQuery /\ InitRegistry /\ InitWindow
  /\ InitView /\ InitConc /\ InitIndex
  /\ pSelf \in Metas
  /\ pOther \in Metas
  /\ pOut = {}

SpecMeta == InitSpecMeta /\ [][NextMeta]_vars

\* The queries alone, over a store of their own.
InitSpecQuery ==
  /\ InitLoan /\ lStorage = Vacant
  /\ InitWorld /\ (\A k \in Keys : wMap[k] = 0)
  /\ InitEvent
  /\ InitHandlers
  /\ qEntityMap \in InitQueryStores
  /\ qComponentMap = qEntityMap
  /\ qKnown = {s[1] : s \in qEntityMap}
  /\ InitQueryIdle
  /\ InitRegistry
  /\ InitWindow
  /\ InitExtra

SpecQuery == InitSpecQuery /\ [][NextQuery]_vars

\* The event registry alone.
InitSpecEvents ==
  /\ InitLoan /\ lStorage = Vacant
  /\ InitWorld /\ (\A k \in Keys : wMap[k] = 0)
  /\ InitEvent
  /\ InitHandlers
  /\ InitOthers

SpecEvents == InitSpecEvents /\ [][NextRegistry]_vars

\* run_window: the startup event, then the tick task, on a registered graph.
InitSpecWindow ==
  /\ InitLoan /\ lStorage = Vacant
  /\ InitWorld /\ (\A k \in Keys : wMap[k] = 0)
  /\ \E g \in WindowGraphs :
       /\ eNodes = g.nodes
       /\ eEdges = g.edges
       /\ eCache = [ty \in HandlerKinds |-> IndexOf(g.nodes, ty)]
  /\ InitDispatcher
  /\ InitHandlers
  /\ InitOthers

SpecWindow == InitSpecWindow /\ [][NextWindow]_vars

\* The deferred operations and the identifier allocator alone.
InitSpecDefer ==
  /\ InitLoan /\ lStorage = Vacant
  /\ InitWorld /\ (\A k \in Keys : wMap[k] = 0)
  /\ InitEvent
  /\ InitHandlers
  /\ InitOthers

SpecDefer == InitSpecDefer /\ [][NextView]_vars

=============================================================================
